---- MODULE Spec2Model ----
(***************************************************************************)
(* A model of localmr, a single-machine MapReduce engine:                  *)
(*   - the controller (controller.rs): admission channel, scoped map pool, *)
(*     scoped reduce pool, clean_up;                                       *)
(*   - the map partition (map.rs, phases/map.rs): sort_input, do_map,      *)
(*     write_output;                                                       *)
(*   - the WriteLog codec (formats/writelog.rs) and the record reader      *)
(*     (formats/util.rs);                                                  *)
(*   - the merge tree (shard_merge.rs) and the group-by (reduce.rs);       *)
(*   - the input cache (input_cache.rs).                                   *)
(* Strings are sequences of code points, files are sequences of bytes.     *)
(***************************************************************************)
EXTENDS Integers, Sequences, FiniteSets, TLC

VARIABLES params, input, chan, ctl, map_partitions_run, mw, rw, fs, sinks, ioLog,
          m_sources, m_cmp, m_tree, m_out, m_pc,
          r_params, r_srcs, r_self, r_stream, r_groups, r_pc,
          w_items, w_writer, w_results, w_src, w_reader, w_mode, w_read, w_pc,
          p_params, p_input, p_self, p_sinks, p_pc,
          c_args, c_cache, c_out, c_pc,
          u_val, u_buf, u_out, u_pc,
          d_srcs, d_self, d_calls, d_attempts, d_dest, d_warns, d_pc,
          i_srcs, i_it, i_out, i_pc

vars == <<params, input, chan, ctl, map_partitions_run, mw, rw, fs, sinks, ioLog,
          m_sources, m_cmp, m_tree, m_out, m_pc,
          r_params, r_srcs, r_self, r_stream, r_groups, r_pc,
          w_items, w_writer, w_results, w_src, w_reader, w_mode, w_read, w_pc,
          p_params, p_input, p_self, p_sinks, p_pc,
          c_args, c_cache, c_out, c_pc,
          u_val, u_buf, u_out, u_pc,
          d_srcs, d_self, d_calls, d_attempts, d_dest, d_warns, d_pc,
          i_srcs, i_it, i_out, i_pc>>

jobVars == <<params, input, chan, ctl, map_partitions_run, mw, rw, fs, sinks, ioLog>>

mergeVars == <<m_sources, m_cmp, m_tree, m_out, m_pc>>

reduceVars == <<r_params, r_srcs, r_self, r_stream, r_groups, r_pc>>

writelogVars == <<w_items, w_writer, w_results, w_src, w_reader, w_mode, w_read, w_pc>>

mapVars == <<p_params, p_input, p_self, p_sinks, p_pc>>

cacheVars == <<c_args, c_cache, c_out, c_pc>>

codecVars == <<u_val, u_buf, u_out, u_pc>>

sinkVars == <<d_srcs, d_self, d_calls, d_attempts, d_dest, d_warns, d_pc>>

inputsVars == <<i_srcs, i_it, i_out, i_pc>>

auxVars == <<mapVars, cacheVars, codecVars, sinkVars, inputsVars>>

\* What each of the partial specifications leaves alone.
mapOthers == <<jobVars, mergeVars, reduceVars, writelogVars,
               cacheVars, codecVars, sinkVars, inputsVars>>

cacheOthers == <<jobVars, mergeVars, reduceVars, writelogVars,
                 mapVars, codecVars, sinkVars, inputsVars>>

codecOthers == <<jobVars, mergeVars, reduceVars, writelogVars,
                 mapVars, cacheVars, sinkVars, inputsVars>>

sinkOthers == <<jobVars, mergeVars, reduceVars, writelogVars,
                mapVars, cacheVars, codecVars, inputsVars>>

inputsOthers == <<jobVars, mergeVars, reduceVars, writelogVars,
                  mapVars, cacheVars, codecVars, sinkVars>>

----------------------------------------------------------------------------
(* Bounds of the model. *)

\* The longest external input, in records.
MaxRecords == 2

\* The largest params.mappers.
MaxMappers == 2

\* The largest params.reducers.
MaxReducers == 2

\* The largest number of sources handed to ShardMergeIterator::build.
MaxK == 5

\* The longest source handed to ShardMergeIterator::build.
MaxLen == 2

\* The most elements all the sources handed to build hold together.
MaxTotal == 5

\* The largest number of record iterators handed to ReducePartition::new.
MaxSrcs == 3

\* The most records the iterators handed to ReducePartition::new hold together.
MaxSrcRecords == 3

\* The most byte strings written to one WriteLogWriter.
MaxItems == 2

\* The longest byte string written to a WriteLogWriter.
MaxItemLen == 2

----------------------------------------------------------------------------
(* Generic helpers on sequences. *)

Range(s) == {s[i] : i \in 1..Len(s)}

RECURSIVE Flatten(_)
Flatten(ss) == IF ss = <<>> THEN <<>> ELSE Head(ss) \o Flatten(Tail(ss))

RECURSIVE SeqsUpTo(_, _)
SeqsUpTo(S, n) ==
    IF n = 0 THEN {<<>>}
    ELSE LET shorter == SeqsUpTo(S, n - 1)
         IN shorter \cup {Append(s, x) : s \in {t \in shorter : Len(t) = n - 1}, x \in S}

\* How many positions of s hold x.
Count(s, x) == Cardinality({i \in 1..Len(s) : s[i] = x})

\* The two sequences hold the same elements, each as often.
SameMultiset(s, t) ==
    /\ Len(s) = Len(t)
    /\ \A x \in Range(s) \cup Range(t) : Count(s, x) = Count(t, x)

----------------------------------------------------------------------------
(* Strings: sequences of code points. *)

\* fmt::format("{}", n) of an unsigned number: its decimal digits.
RECURSIVE FormatUsize(_)
FormatUsize(n) ==
    IF n < 10 THEN <<48 + n>> ELSE FormatUsize(n \div 10) \o <<48 + (n % 10)>>

\* char::to_ascii_lowercase
to_ascii_lowercase(c) == IF c >= 65 /\ c <= 90 THEN c + 32 ELSE c

\* str::to_ascii_lowercase
str_to_ascii_lowercase(s) == [i \in 1..Len(s) |-> to_ascii_lowercase(s[i])]

\* Ord for String: lexicographic on the code points.
RECURSIVE string_cmp(_, _)
string_cmp(a, b) ==
    IF a = <<>> /\ b = <<>> THEN "Equal"
    ELSE IF a = <<>> THEN "Less"
    ELSE IF b = <<>> THEN "Greater"
    ELSE IF a[1] < b[1] THEN "Less"
    ELSE IF a[1] > b[1] THEN "Greater"
    ELSE string_cmp(Tail(a), Tail(b))

\* sort.rs dict_char_compare
dict_char_compare(a, b) ==
    LET la == to_ascii_lowercase(a)
        lb == to_ascii_lowercase(b)
    IN IF la < lb THEN "Less" ELSE IF la > lb THEN "Greater" ELSE "Equal"

\* sort.rs dict_string_compare
RECURSIVE dict_string_compare(_, _)
dict_string_compare(a, b) ==
    IF a = <<>> /\ b = <<>> THEN "Equal"
    ELSE IF b = <<>> THEN "Greater"
    ELSE IF a = <<>> THEN "Less"
    ELSE LET cmp == dict_char_compare(a[1], b[1])
         IN IF cmp # "Equal" THEN cmp ELSE dict_string_compare(Tail(a), Tail(b))

\* record_types.rs: Ord for Record, the key first and then the value.
record_cmp(a, b) ==
    LET o == string_cmp(a.key, b.key)
    IN IF o = "Equal" THEN string_cmp(a.value, b.value) ELSE o

int_cmp(a, b) == IF a < b THEN "Less" ELSE IF a > b THEN "Greater" ELSE "Equal"

----------------------------------------------------------------------------
(* An Option is <<>> (None) or <<x>> (Some(x)). *)

None == <<>>

Some(x) == <<x>>

----------------------------------------------------------------------------
(* formats/writelog.rs: the length-prefixed record stream. *)

\* A u32 is the pair of its 16-bit halves, [hi, lo]; n as u32.
as_u32(n) == [hi |-> (n \div 65536) % 65536, lo |-> n % 65536]

\* A u32 as usize.  A value of 2^31 or more is read as 2^31 - 1: a source
\* of the model is shorter than either.
as_usize(val) == IF val.hi >= 32768 THEN 2147483647 ELSE val.hi * 65536 + val.lo

\* encode_u32: the four bytes of val, the most significant first.
encode_u32_little_endian(val) ==
    <<val.lo % 256, val.lo \div 256, val.hi % 256, val.hi \div 256>>

encode_u32(val) == <<val.hi \div 256, val.hi % 256, val.lo \div 256, val.lo % 256>>

\* decode_u32
decode_u32(buf) == [hi |-> buf[1] * 256 + buf[2], lo |-> buf[3] * 256 + buf[4]]

\* WriteLogWriter::new
wlw_new(dest) == [dest |-> dest, current_length |-> 0, records_written |-> 0]

\* WriteLogWriter::write: the sink is asked to write the length prefix and
\* then, whatever came of that, the payload (the argument of and is
\* evaluated before and is called); prefix_ok and payload_ok say which of the
\* two writes the sink accepts.  The counters move when both were accepted.
wlw_write_counting_payload(self, buf, prefix_ok, payload_ok) ==
    LET dest1 == IF prefix_ok THEN self.dest \o encode_u32(as_u32(Len(buf))) ELSE self.dest
        dest2 == IF payload_ok THEN dest1 \o buf ELSE dest1
    IN IF prefix_ok /\ payload_ok
       THEN [ok |-> TRUE,
             self |-> [dest |-> dest2,
                       current_length |-> self.current_length + Len(buf),
                       records_written |-> self.records_written + 1]]
       ELSE [ok |-> FALSE, self |-> [self EXCEPT !.dest = dest2]]

\* write counting the length prefix as soon as the sink took it.
wlw_write_counting_prefix(self, buf, prefix_ok, payload_ok) ==
    LET dest1 == IF prefix_ok THEN self.dest \o encode_u32(as_u32(Len(buf))) ELSE self.dest
        dest2 == IF payload_ok THEN dest1 \o buf ELSE dest1
    IN IF prefix_ok /\ payload_ok
       THEN [ok |-> TRUE,
             self |-> [dest |-> dest2,
                       current_length |-> self.current_length + 4 + Len(buf),
                       records_written |-> self.records_written + 1]]
       ELSE [ok |-> FALSE,
             self |-> [self EXCEPT !.dest = dest2,
                                   !.current_length = IF prefix_ok THEN self.current_length + 4
                                                      ELSE self.current_length]]

wlw_write(self, buf, prefix_ok, payload_ok) ==
    LET dest1 == IF prefix_ok THEN self.dest \o encode_u32(as_u32(Len(buf))) ELSE self.dest
        dest2 == IF payload_ok THEN dest1 \o buf ELSE dest1
    IN IF prefix_ok /\ payload_ok
       THEN [ok |-> TRUE,
             self |-> [dest |-> dest2,
                       current_length |-> self.current_length + 4 + Len(buf),
                       records_written |-> self.records_written + 1]]
       ELSE [ok |-> FALSE, self |-> [self EXCEPT !.dest = dest2]]

\* WriteLogWriter::get_stats
wlw_get_stats(self) == <<self.current_length, self.records_written>>

\* WriteLogWriter::write on a sink that accepts the write: the bytes appended.
wl_write(dest, buf) == wlw_write(wlw_new(dest), buf, TRUE, TRUE).self.dest

Min(a, b) == IF a <= b THEN a ELSE b

\* WriteLogReader::new over a source holding data that delivers at most
\* read_size bytes per read call.
wlr_new(data, read_size) ==
    [src |-> [data |-> data, read_size |-> read_size, errs |-> <<>>],
     records_read |-> 0, bytes_read |-> 0]

\* WriteLogReader::new over a source whose read calls can fail: errs says of
\* the coming read calls, one after the other, whether each returns Err; a
\* call that returns Err takes nothing from the source.
wlr_new_failing(data, read_size, errs) ==
    [src |-> [data |-> data, read_size |-> read_size, errs |-> errs],
     records_read |-> 0, bytes_read |-> 0]

\* WriteLogReader::read_bytes: read calls until len bytes are there; a read
\* of 0 bytes is an error unless len is 0.  [ok, buf, self].
RECURSIVE read_bytes_loop(_, _, _)
read_bytes_loop(self, buf, len) ==
    LET off == Len(buf)
        s == Min(Min(len - off, self.src.read_size), Len(self.src.data))
        got == SubSeq(self.src.data, 1, s)
        errs == IF self.src.errs = <<>> THEN <<>> ELSE Tail(self.src.errs)
        after == [self EXCEPT !.src.data = SubSeq(self.src.data, s + 1, Len(self.src.data)),
                              !.src.errs = errs]
    IN IF self.src.errs # <<>> /\ Head(self.src.errs)
       THEN [ok |-> FALSE, buf |-> <<>>, self |-> [self EXCEPT !.src.errs = errs]]
       ELSE IF s = 0
       THEN [ok |-> (len = 0), buf |-> <<>>, self |-> after]
       ELSE IF off + s < len
       THEN read_bytes_loop(after, buf \o got, len)
       ELSE [ok |-> TRUE, buf |-> buf \o got,
             self |-> [after EXCEPT !.bytes_read = self.bytes_read + s]]

read_bytes(self, len) == read_bytes_loop(self, <<>>, len)

\* WriteLogReader::read_vec
read_vec(self) ==
    LET counted(res2) ==
            IF ~res2.ok THEN res2
            ELSE [res2 EXCEPT !.self.records_read = res2.self.records_read + 1]
        body(res) ==
            IF ~res.ok THEN res
            ELSE counted(read_bytes(res.self, as_usize(decode_u32(res.buf))))
    IN body(read_bytes(self, 4))

\* A continuation byte of UTF-8.
utf8_cont(b) == b >= 128 /\ b <= 191

\* String::from_utf8 succeeds: v is well-formed UTF-8.
RECURSIVE from_utf8_ok(_)
from_utf8_ok(v) ==
    IF v = <<>> THEN TRUE
    ELSE LET b == v[1]
         IN IF b < 128 THEN from_utf8_ok(Tail(v))
            ELSE IF b >= 194 /\ b <= 223
            THEN Len(v) >= 2 /\ utf8_cont(v[2]) /\ from_utf8_ok(SubSeq(v, 3, Len(v)))
            ELSE IF b >= 224 /\ b <= 239
            THEN /\ Len(v) >= 3
                 /\ utf8_cont(v[2]) /\ utf8_cont(v[3])
                 /\ b = 224 => v[2] >= 160
                 /\ b = 237 => v[2] <= 159
                 /\ from_utf8_ok(SubSeq(v, 4, Len(v)))
            ELSE IF b >= 240 /\ b <= 244
            THEN /\ Len(v) >= 4
                 /\ utf8_cont(v[2]) /\ utf8_cont(v[3]) /\ utf8_cont(v[4])
                 /\ b = 240 => v[2] >= 144
                 /\ b = 244 => v[2] <= 143
                 /\ from_utf8_ok(SubSeq(v, 5, Len(v)))
            ELSE FALSE

\* Iterator for WriteLogReader, next: [item, self]; None on a read error and
\* on an entry that is not UTF-8.
wlr_next(self) ==
    LET item(res) ==
            IF ~res.ok THEN [item |-> None, self |-> res.self]
            ELSE IF ~from_utf8_ok(res.buf) THEN [item |-> None, self |-> res.self]
            ELSE [item |-> Some(res.buf), self |-> res.self]
    IN item(read_vec(self))

\* The entries a for loop over the reader sees: those up to the first None.
RECURSIVE wlr_entries(_)
wlr_entries(self) ==
    LET res == wlr_next(self)
    IN IF res.item = None THEN <<>> ELSE <<res.item[1]>> \o wlr_entries(res.self)

\* Iterator for WriteLogReader over a file, which delivers all it is asked for.
wl_entries(src) == wlr_entries(wlr_new(src, Len(src) + 1))

\* formats/util.rs RecordReadIterator: entries read in pairs, key then value.
RECURSIVE record_read_iter(_)
record_read_iter(entries) ==
    IF Len(entries) < 2 THEN <<>>
    ELSE <<[key |-> entries[1], value |-> entries[2]]>>
         \o record_read_iter(Tail(Tail(entries)))

\* formats/util.rs RecordReadIterator::new over the iterator it
rri_new(it) == [kind |-> "rri", i |-> it]

\* formats/util.rs RecordReadIterator::next: both entries are asked for, and
\* a record is returned if both are there.  [item, it]
rri_next(self) ==
    LET record(k, v) ==
            [item |-> IF k.item = None \/ v.item = None THEN None
                      ELSE Some([key |-> k.item[1], value |-> v.item[1]]),
             it |-> [self EXCEPT !.i = v.self]]
        value(k) == record(k, wlr_next(k.self))
    IN value(wlr_next(self.i))


----------------------------------------------------------------------------
(* shard_merge.rs: the merge tree.  An iterator is a source over items     *)
(* ([kind |-> "iter"]), a RecordReadIterator over a WriteLogReader         *)
(* ([kind |-> "rri"]) or a ShardMergeIterator ([kind |-> "merge"]); T is   *)
(* the element type, whose Ord is used when comparer is None.              *)

\* A source iterator over items (vec::IntoIter, RecordReadIterator); iter::empty() is SourceIter(<<>>).
SourceIter(items) == [kind |-> "iter", items |-> items]

\* The Ord of the element type T.
ord_cmp(T, a, b) ==
    CASE T = "i32" -> int_cmp(a, b)
      [] T = "String" -> string_cmp(a, b)
      [] T = "Record" -> record_cmp(a, b)

\* A Comparer<T>, called by name.
call_comparer(f, a, b) ==
    CASE f = "dict_string_compare" -> dict_string_compare(a, b)

\* ShardMergeIterator::compare
compare(self, a, b) ==
    IF self.comparer = None THEN ord_cmp(self.T, a, b)
    ELSE call_comparer(self.comparer[1], a, b)

\* The second match of next, on the two filled peek slots: the item returned and the node left.
smi_consume_flipped(self) ==
    LET l == self.left_peeked
        r == self.right_peeked
    IN IF l = None /\ r = None THEN [item |-> None, it |-> self]
       ELSE IF r = None THEN [item |-> l, it |-> [self EXCEPT !.left_peeked = None]]
       ELSE IF l = None THEN [item |-> r, it |-> [self EXCEPT !.right_peeked = None]]
       ELSE IF compare(self, l[1], r[1]) = "Greater"
            THEN [item |-> l, it |-> [self EXCEPT !.left_peeked = None]]
            ELSE [item |-> r, it |-> [self EXCEPT !.right_peeked = None]]

smi_consume_dropping(self) ==
    LET l == self.left_peeked
        r == self.right_peeked
    IN IF l = None /\ r = None THEN [item |-> None, it |-> self]
       ELSE IF r = None THEN [item |-> l, it |-> [self EXCEPT !.left_peeked = None]]
       ELSE IF l = None THEN [item |-> r, it |-> [self EXCEPT !.right_peeked = None]]
       ELSE IF compare(self, l[1], r[1]) \in {"Less", "Equal"}
            THEN [item |-> l, it |-> [self EXCEPT !.left_peeked = None, !.right_peeked = None]]
            ELSE [item |-> r, it |-> [self EXCEPT !.right_peeked = None]]

smi_consume_right_on_tie(self) ==
    LET l == self.left_peeked
        r == self.right_peeked
    IN IF l = None /\ r = None THEN [item |-> None, it |-> self]
       ELSE IF r = None THEN [item |-> l, it |-> [self EXCEPT !.left_peeked = None]]
       ELSE IF l = None THEN [item |-> r, it |-> [self EXCEPT !.right_peeked = None]]
       ELSE IF compare(self, l[1], r[1]) = "Less"
            THEN [item |-> l, it |-> [self EXCEPT !.left_peeked = None]]
            ELSE [item |-> r, it |-> [self EXCEPT !.right_peeked = None]]

smi_consume(self) ==
    LET l == self.left_peeked
        r == self.right_peeked
    IN IF l = None /\ r = None THEN [item |-> None, it |-> self]
       ELSE IF r = None THEN [item |-> l, it |-> [self EXCEPT !.left_peeked = None]]
       ELSE IF l = None THEN [item |-> r, it |-> [self EXCEPT !.right_peeked = None]]
       ELSE IF compare(self, l[1], r[1]) \in {"Less", "Equal"}
            THEN [item |-> l, it |-> [self EXCEPT !.left_peeked = None]]
            ELSE [item |-> r, it |-> [self EXCEPT !.right_peeked = None]]

\* Iterator::next of a source or of a ShardMergeIterator: [item, it], the
\* Option returned and the iterator afterwards.  A merge node first fills its
\* empty peek slots from its children, then consumes one.
RECURSIVE iter_next(_)
iter_next(self) ==
    IF self.kind = "iter"
    THEN IF self.items = <<>> THEN [item |-> None, it |-> self]
         ELSE [item |-> Some(Head(self.items)), it |-> [self EXCEPT !.items = Tail(self.items)]]
    ELSE IF self.kind = "rri" THEN rri_next(self)
    ELSE LET lres == IF self.left_peeked = None THEN iter_next(self.left)
                     ELSE [item |-> self.left_peeked, it |-> self.left]
             rres == IF self.right_peeked = None THEN iter_next(self.right)
                     ELSE [item |-> self.right_peeked, it |-> self.right]
         IN smi_consume([self EXCEPT !.left = lres.it, !.right = rres.it,
                                     !.left_peeked = lres.item,
                                     !.right_peeked = rres.item])

\* ShardMergeIterator::default()
smi_default(T) ==
    [kind |-> "merge", T |-> T, left |-> SourceIter(<<>>), right |-> SourceIter(<<>>),
     left_peeked |-> None, right_peeked |-> None, comparer |-> None]

\* The first loop of _build: the source iterators merged in pairs, the last
\* one of an odd number with an empty iterator.
RECURSIVE build_pairs(_, _, _)
build_pairs(T, sources, cmp) ==
    IF sources = <<>> THEN <<>>
    ELSE IF Len(sources) = 1
    THEN <<[smi_default(T) EXCEPT !.left = sources[1], !.comparer = cmp]>>
    ELSE <<[smi_default(T) EXCEPT !.left = sources[1],
                                  !.right = sources[2],
                                  !.comparer = cmp]>>
         \o build_pairs(T, Tail(Tail(sources)), cmp)

\* ShardMergeIterator::merge
RECURSIVE smi_merge(_, _, _)
smi_merge(T, its, cmp) ==
    IF Len(its) = 0 THEN smi_default(T)
    ELSE IF Len(its) = 1 THEN [smi_default(T) EXCEPT !.left = its[1], !.comparer = cmp]
    ELSE IF Len(its) = 2
    THEN [smi_default(T) EXCEPT !.left = its[1], !.right = its[2], !.comparer = cmp]
    ELSE LET split_at == Len(its) \div 2
         IN [smi_default(T) EXCEPT
                !.left = smi_merge(T, SubSeq(its, 1, split_at), cmp),
                !.right = smi_merge(T, SubSeq(its, split_at + 1, Len(its)), cmp),
                !.comparer = cmp]

\* ShardMergeIterator::_build
smi_build_iters(T, sources, cmp) == smi_merge(T, build_pairs(T, sources, cmp), cmp)

\* ShardMergeIterator::_build over sources that are iterators over items.
smi_build(T, sources, cmp) ==
    smi_build_iters(T, [k \in 1..Len(sources) |-> SourceIter(sources[k])], cmp)

\* Everything the iterator yields until its first None (a for loop over it).
RECURSIVE drain(_)
drain(it) ==
    LET res == iter_next(it)
    IN IF res.item = None THEN <<>> ELSE <<res.item[1]>> \o drain(res.it)

\* s is non-decreasing under the comparison (T's Ord, or the comparer).
IsSortedUnder(T, cmp, s) ==
    \A i \in 1..(Len(s) - 1) :
        compare([T |-> T, comparer |-> cmp], s[i], s[i + 1]) # "Greater"

----------------------------------------------------------------------------
(* input_cache.rs *)

\* How many records from_iter takes from it: it stops after the record with
\* which bytes_read reaches max_bytes.
RECURSIVE from_iter_count(_, _, _)
from_iter_count(max_bytes, it, bytes_read) ==
    IF it = <<>> THEN 0
    ELSE LET read == bytes_read + Len(it[1].key) + Len(it[1].value)
         IN IF read >= max_bytes THEN 1
            ELSE 1 + from_iter_count(max_bytes, Tail(it), read)

\* InputCache::from_iter: the records cached (in order) and what is left of it.
from_iter(chunk_length, max_bytes, it) ==
    LET n == from_iter_count(max_bytes, it, 0)
    IN [records |-> SubSeq(it, 1, n), rest |-> SubSeq(it, n + 1, Len(it))]

\* from_iter with the byte limit tested before the record is pushed: the
\* record that reaches the limit is taken from it and dropped.
RECURSIVE from_iter_loop_dropping(_, _, _, _)
from_iter_loop_dropping(chunk_length, max_bytes, it, st) ==
    IF it = <<>> THEN [st EXCEPT !.rest = <<>>]
    ELSE LET v == Head(it)
             pushed == [st EXCEPT !.i = st.i + 1,
                                  !.complete_length = st.complete_length + 1,
                                  !.bytes_read = st.bytes_read + Len(v.key) + Len(v.value),
                                  !.chunk = Append(st.chunk, v)]
             cut == IF pushed.i >= chunk_length
                    THEN [pushed EXCEPT !.chunklist = Append(pushed.chunklist, pushed.chunk),
                                        !.chunk = <<>>,
                                        !.i = 0]
                    ELSE pushed
         IN IF pushed.bytes_read >= max_bytes THEN [st EXCEPT !.rest = Tail(it)]
            ELSE from_iter_loop_dropping(chunk_length, max_bytes, Tail(it), cut)

\* The for loop of InputCache::from_iter over it, from the state st of its
\* locals: chunklist, chunk, i, complete_length, bytes_read; rest is what is
\* left of it when the loop is left.
RECURSIVE from_iter_loop(_, _, _, _)
from_iter_loop(chunk_length, max_bytes, it, st) ==
    IF it = <<>> THEN [st EXCEPT !.rest = <<>>]
    ELSE LET v == Head(it)
             pushed == [st EXCEPT !.i = st.i + 1,
                                  !.complete_length = st.complete_length + 1,
                                  !.bytes_read = st.bytes_read + Len(v.key) + Len(v.value),
                                  !.chunk = Append(st.chunk, v)]
             cut == IF pushed.i >= chunk_length
                    THEN [pushed EXCEPT !.chunklist = Append(pushed.chunklist, pushed.chunk),
                                        !.chunk = <<>>,
                                        !.i = 0]
                    ELSE pushed
         IN IF cut.bytes_read >= max_bytes THEN [cut EXCEPT !.rest = Tail(it)]
            ELSE from_iter_loop(chunk_length, max_bytes, Tail(it), cut)

\* InputCache::from_iter as a whole: the InputCache, [chunks_iter,
\* chunk_iter, len], and rest, what is left of the iterator it was built from.
from_iter_cache(chunk_length, max_bytes, it) ==
    LET st == from_iter_loop(chunk_length, max_bytes, it,
                             [chunklist |-> <<>>, chunk |-> <<>>, i |-> 0,
                              complete_length |-> 0, bytes_read |-> 0, rest |-> <<>>])
        chunklist == IF Len(st.chunk) > 0 THEN Append(st.chunklist, st.chunk)
                     ELSE st.chunklist
    IN IF Len(chunklist) = 0
       THEN [len |-> 0, chunks_iter |-> <<>>, chunk_iter |-> <<>>, rest |-> st.rest]
       ELSE [len |-> st.complete_length, chunks_iter |-> Tail(chunklist),
             chunk_iter |-> Head(chunklist), rest |-> st.rest]

\* Iterator for InputCache, next: [item, self]
ic_next(self) ==
    IF self.chunk_iter # <<>>
    THEN [item |-> Some(Head(self.chunk_iter)),
          self |-> [self EXCEPT !.chunk_iter = Tail(self.chunk_iter)]]
    ELSE IF self.chunks_iter # <<>>
    THEN LET chunk == Head(self.chunks_iter)
         IN [item |-> IF chunk = <<>> THEN None ELSE Some(Head(chunk)),
             self |-> [self EXCEPT !.chunks_iter = Tail(self.chunks_iter),
                                   !.chunk_iter = IF chunk = <<>> THEN <<>> ELSE Tail(chunk)]]
    ELSE [item |-> None, self |-> self]

----------------------------------------------------------------------------
(* The user's functions (mapreducer.rs): one mapper, one reducer, one      *)
(* sharder.                                                                *)

\* str::split_whitespace: the maximal runs of non-space characters.
RECURSIVE split_whitespace_acc(_, _)
split_whitespace_acc(s, word) ==
    IF s = <<>> THEN (IF word = <<>> THEN <<>> ELSE <<word>>)
    ELSE IF s[1] = 32
    THEN (IF word = <<>> THEN <<>> ELSE <<word>>) \o split_whitespace_acc(Tail(s), <<>>)
    ELSE split_whitespace_acc(Tail(s), Append(word, s[1]))

split_whitespace(s) == split_whitespace_acc(s, <<>>)

\* The mapper: for every word of the value it emits (word, key of the record).
\* What MEmitter::_get returns, in emission order.
mapper_func(record) ==
    LET words == split_whitespace(record.value)
    IN [i \in 1..Len(words) |-> [key |-> words[i], value |-> record.key]]

\* The reducer (reduce.rs test_reducer): it emits "key: v1 v2 ..." once.
RECURSIVE join_values(_)
join_values(vals) ==
    IF vals = <<>> THEN <<>> ELSE <<32>> \o Head(vals) \o join_values(Tail(vals))

reducer_func(multirec) == <<multirec.key \o <<58>> \o join_values(multirec.values)>>

RECURSIVE sum_chars(_)
sum_chars(s) == IF s = <<>> THEN 0 ELSE Head(s) + sum_chars(Tail(s))

\* The sharder: a hash of the key modulo the number of shards.
shard(n, key) == sum_chars(key) % n

----------------------------------------------------------------------------
(* map.rs: the map partition.  A BTreeMap is the sequence of its entries   *)
(* in ascending key order (Ord for String).                                *)

\* BTreeMap::insert: the entry of an equal key is replaced.
btree_insert_keeping_first(map, k, v) ==
    IF \E i \in 1..Len(map) : map[i].key = k THEN map
    ELSE SelectSeq(map, LAMBDA e : string_cmp(e.key, k) = "Less")
         \o <<[key |-> k, value |-> v]>>
         \o SelectSeq(map, LAMBDA e : string_cmp(e.key, k) = "Greater")

btree_insert(map, k, v) ==
    SelectSeq(map, LAMBDA e : string_cmp(e.key, k) = "Less")
    \o <<[key |-> k, value |-> v]>>
    \o SelectSeq(map, LAMBDA e : string_cmp(e.key, k) = "Greater")

\* BTreeMap::remove
btree_remove(map, k) == SelectSeq(map, LAMBDA e : e.key # k)

\* BTreeMap::get (None or Some)
btree_get(map, k) ==
    LET hit == SelectSeq(map, LAMBDA e : e.key = k)
    IN IF hit = <<>> THEN None ELSE Some(hit[1].value)

\* The loop of sort_input over an InputCache: the records its next returns
\* up to the first None.
RECURSIVE ic_drain(_)
ic_drain(self) ==
    LET more(res) == IF res.item = None THEN <<>>
                     ELSE <<res.item[1]>> \o ic_drain(res.self)
    IN more(ic_next(self))

\* MapPartition::sort_input
RECURSIVE sort_input(_, _)
sort_input(sorted_input, inp) ==
    IF inp = <<>> THEN sorted_input
    ELSE sort_input(btree_insert(sorted_input, inp[1].key, inp[1].value), Tail(inp))

\* MapPartition::insert_result
RECURSIVE insert_result(_, _)
insert_result(sorted_output, emitter) ==
    IF emitter = <<>> THEN sorted_output
    ELSE LET r == Head(emitter)
             e == btree_get(sorted_output, r.key)
             v == IF e = None THEN <<r.value>> ELSE Append(e[1], r.value)
         IN insert_result(btree_insert(btree_remove(sorted_output, r.key), r.key, v),
                          Tail(emitter))

\* The second for loop of do_map over key_buffer: each key is removed from
\* sorted_input, mapped, and the emissions inserted.  self holds
\* sorted_input, sorted_output and emits (every emission so far, in order).
RECURSIVE map_keys(_, _)
map_keys(self, key_buffer) ==
    IF key_buffer = <<>> THEN self
    ELSE LET k == Head(key_buffer)
             val == btree_get(self.sorted_input, k)
         IN IF val = None THEN map_keys(self, Tail(key_buffer))
            ELSE LET e == mapper_func([key |-> k, value |-> val[1]])
                 IN map_keys([self EXCEPT
                                !.sorted_input = btree_remove(self.sorted_input, k),
                                !.sorted_output = insert_result(self.sorted_output, e),
                                !.calls = Append(self.calls, [key |-> k, value |-> val[1]]),
                                !.emits = self.emits \o e],
                             Tail(key_buffer))

\* do_map leaving its loop after any batch that did not overfill the buffer.
do_map_iteration_full_batch_breaks(self, key_buffer_size) ==
    LET n == IF Len(self.sorted_input) < key_buffer_size
             THEN Len(self.sorted_input) ELSE key_buffer_size
        key_buffer == [i \in 1..n |-> self.sorted_input[i].key]
    IN [self |-> map_keys(self, key_buffer), break |-> Len(key_buffer) <= key_buffer_size]

\* One iteration of the loop of do_map: the partition afterwards, and whether
\* the loop breaks.
do_map_iteration(self, key_buffer_size) ==
    LET n == IF Len(self.sorted_input) < key_buffer_size
             THEN Len(self.sorted_input) ELSE key_buffer_size
        key_buffer == [i \in 1..n |-> self.sorted_input[i].key]
    IN [self |-> map_keys(self, key_buffer), break |-> Len(key_buffer) < key_buffer_size]

\* setup_output of map.rs: the name of the sink of map chunk shard_id for reducer i.
map_sink_name(shard_id, i) ==
    <<109, 97, 112, 111, 117, 116, 95>> \o FormatUsize(shard_id) \o <<46>> \o FormatUsize(i)

\* The writes of write_output to one sink: for every key routed to it, in
\* the order of sorted_output, the key and then the value, for each value.
RECURSIVE write_values(_, _, _)
write_values(dest, k, vs) ==
    IF vs = <<>> THEN dest
    ELSE write_values(wl_write(wl_write(dest, k), Head(vs)), k, Tail(vs))

RECURSIVE write_sink_unsharded(_, _, _, _)
write_sink_unsharded(dest, sorted_output, reducers, sink) ==
    IF sorted_output = <<>> THEN dest
    ELSE LET e == Head(sorted_output)
         IN write_sink_unsharded(IF sink = 0
                                 THEN write_values(dest, e.key, e.value) ELSE dest,
                                 Tail(sorted_output), reducers, sink)

RECURSIVE write_sink(_, _, _, _)
write_sink(dest, sorted_output, reducers, sink) ==
    IF sorted_output = <<>> THEN dest
    ELSE LET e == Head(sorted_output)
         IN write_sink(IF shard(reducers, e.key) = sink
                       THEN write_values(dest, e.key, e.value) ELSE dest,
                       Tail(sorted_output), reducers, sink)

----------------------------------------------------------------------------
(* reduce.rs: the group-by and the reduce partition. *)

\* The key under which records are grouped.
group_key(key, insensitive) == IF insensitive THEN str_to_ascii_lowercase(key) ELSE key

\* How many of the records at the head of it continue the group of key.
RECURSIVE group_run(_, _, _)
group_run(it, key, insensitive) ==
    IF it = <<>> THEN 0
    ELSE IF group_key(it[1].key, insensitive) # key THEN 0
    ELSE 1 + group_run(Tail(it), key, insensitive)

\* RecordsToMultiRecords as a whole: every MultiRecord it yields.
RECURSIVE records_to_multirecords(_, _)
records_to_multirecords(it, insensitive) ==
    IF it = <<>> THEN <<>>
    ELSE LET key == group_key(it[1].key, insensitive)
             n == 1 + group_run(Tail(it), key, insensitive)
         IN <<[key |-> key, values |-> [i \in 1..n |-> it[i].value]]>>
            \o records_to_multirecords(SubSeq(it, n + 1, Len(it)), insensitive)

\* Vec::with_capacity: an empty vector, whatever the capacity.
vec_with_capacity(capacity) == <<>>

\* Peekable::next on [it, peeked]: the peeked item if there is one, else the
\* next item of the iterator.
peekable_next(self) ==
    IF self.peeked # None
    THEN [item |-> self.peeked[1], it |-> [self EXCEPT !.peeked = None]]
    ELSE LET res == iter_next(self.it)
         IN [item |-> res.item, it |-> [self EXCEPT !.it = res.it]]

\* Peekable::peek: the next item is fetched once and kept.
peekable_peek(self) ==
    IF self.peeked # None THEN [item |-> self.peeked[1], it |-> self]
    ELSE LET res == iter_next(self.it)
         IN [item |-> res.item, it |-> [self EXCEPT !.it = res.it, !.peeked = Some(res.item)]]

\* The loop of RecordsToMultiRecords::next: the records that continue the
\* group of key are consumed and their values pushed.
RECURSIVE rtm_loop_dropping(_, _, _, _)
rtm_loop_dropping(it, key, collection, p) ==
    LET peek == peekable_peek(it)
    IN IF peek.item = None THEN [collection |-> collection, it |-> peek.it]
       ELSE IF ~p.reduce_group_insensitive /\ peek.item[1].key # key
       THEN [collection |-> collection, it |-> peek.it]
       ELSE IF p.reduce_group_insensitive /\ str_to_ascii_lowercase(peek.item[1].key) # key
       THEN [collection |-> collection, it |-> peek.it]
       ELSE LET nxt == peekable_next(peek.it)
            IN rtm_loop_dropping(nxt.it, key, collection, p)

RECURSIVE rtm_loop_raw_compare(_, _, _, _)
rtm_loop_raw_compare(it, key, collection, p) ==
    LET peek == peekable_peek(it)
    IN IF peek.item = None THEN [collection |-> collection, it |-> peek.it]
       ELSE IF peek.item[1].key # key
       THEN [collection |-> collection, it |-> peek.it]
       ELSE LET nxt == peekable_next(peek.it)
            IN rtm_loop_raw_compare(nxt.it, key, Append(collection, nxt.item[1].value), p)

RECURSIVE rtm_loop_always_lowering(_, _, _, _)
rtm_loop_always_lowering(it, key, collection, p) ==
    LET peek == peekable_peek(it)
    IN IF peek.item = None THEN [collection |-> collection, it |-> peek.it]
       ELSE IF str_to_ascii_lowercase(peek.item[1].key) # str_to_ascii_lowercase(key)
       THEN [collection |-> collection, it |-> peek.it]
       ELSE LET nxt == peekable_next(peek.it)
            IN rtm_loop_always_lowering(nxt.it, key, Append(collection, nxt.item[1].value), p)

RECURSIVE rtm_loop(_, _, _, _)
rtm_loop(it, key, collection, p) ==
    LET push(nxt) == rtm_loop(nxt.it, key, Append(collection, nxt.item[1].value), p)
        body(peek) ==
            IF peek.item = None THEN [collection |-> collection, it |-> peek.it]
            ELSE IF ~p.reduce_group_insensitive /\ peek.item[1].key # key
            THEN [collection |-> collection, it |-> peek.it]
            ELSE IF p.reduce_group_insensitive /\ str_to_ascii_lowercase(peek.item[1].key) # key
            THEN [collection |-> collection, it |-> peek.it]
            ELSE push(peekable_next(peek.it))
    IN body(peekable_peek(it))

\* RecordsToMultiRecords::new
rtm_new(it, p) == [it |-> [it |-> it, peeked |-> None], params |-> p]

\* RecordsToMultiRecords::next: [item, self], the Option<MultiRecord>
\* returned and the adaptor afterwards.
rtm_next(self) ==
    LET group(key, rest) ==
            [item |-> Some([key |-> key, values |-> rest.collection]),
             self |-> [self EXCEPT !.it = rest.it]]
        body(first) ==
            IF first.item = None THEN [item |-> None, self |-> [self EXCEPT !.it = first.it]]
            ELSE LET r == first.item[1]
                     key == IF self.params.reduce_group_insensitive
                            THEN str_to_ascii_lowercase(r.key) ELSE r.key
                     collection == Append(vec_with_capacity(self.params.reduce_group_prealloc_size),
                                          r.value)
                 IN group(key, rtm_loop(first.it, key, collection, self.params))
    IN body(peekable_next(self.it))

\* ReducePartition::reduce: the strings written to the sink, in order.
RECURSIVE reduce_writes(_)
reduce_writes(multirecs) ==
    IF multirecs = <<>> THEN <<>>
    ELSE reducer_func(Head(multirecs)) \o reduce_writes(Tail(multirecs))

\* ReducePartition::_run: the MultiRecords the reducer is invoked with, from
\* the record iterators srcs.
reduce_run(srcs, insensitive) ==
    records_to_multirecords(drain(smi_build("Record", srcs, None)), insensitive)

\* controller.rs open_reduce_inputs: the name of the input of shard from map partition part.
reduce_input_name(map_output_location, part, shard_id) ==
    map_output_location \o FormatUsize(part) \o <<46>> \o FormatUsize(shard_id)

\* controller.rs get_reduce_output_name
get_reduce_output_name_unsharded(reduce_output_shard_prefix, shard_id) ==
    reduce_output_shard_prefix \o FormatUsize(0)

get_reduce_output_name(reduce_output_shard_prefix, shard_id) ==
    reduce_output_shard_prefix \o FormatUsize(shard_id)

\* controller.rs clean_up: the names it unlinks.
clean_up_names(map_output_location, partitions, reducers) ==
    {map_output_location \o FormatUsize(mpart) \o <<46>> \o FormatUsize(rshard) :
        mpart \in 0..(partitions - 1), rshard \in 0..(reducers - 1)}

----------------------------------------------------------------------------
(* The job: MRController::run with its map workers and reduce workers.     *)
(*   ctl                 where the controller is in run                    *)
(*   chan                the tokens waiting in the admission channel       *)
(*   map_partitions_run  the controller's chunk counter                    *)
(*   mw                  the map workers spawned, chunk i at index i + 1   *)
(*   rw                  the reduce workers spawned, shard r at index r + 1*)
(*   fs                  the files of the working directory, name -> bytes *)
(*   sinks               the outputs made by the sink generator handed to  *)
(*                       run, name -> the buffers written                  *)
(*   ioLog               which worker created or opened which file (history)*)

\* parameters.rs MRParameters::new: the defaults.
DefaultParams ==
    [key_buffer_size |-> 256, mappers |-> 4, reducers |-> 4,
     map_partition_size |-> 100 * 1024 * 1024,
     reduce_group_prealloc_size |-> 1, reduce_group_insensitive |-> FALSE,
     map_output_location |-> <<109, 97, 112, 95, 105, 110, 116, 101, 114, 109,
                               101, 100, 105, 97, 116, 101, 95>>,
     keep_temp_files |-> FALSE,
     reduce_output_shard_prefix |-> <<111, 117, 116, 112, 117, 116, 95>>]

\* The records the external input is made of: keys "1", "2", values "a", "a B A".
InputRecords == {[key |-> k, value |-> v] : k \in {<<49>>, <<50>>},
                                            v \in {<<97>>, <<97, 32, 66, 32, 65>>}}

\* The parameters a job is run with: the defaults changed by the setters.
JobParams ==
    {[DefaultParams EXCEPT !.mappers = m, !.reducers = r, !.key_buffer_size = kb,
                           !.map_partition_size = ps, !.reduce_group_insensitive = gi,
                           !.map_output_location = loc, !.keep_temp_files = keep] :
        m \in 1..MaxMappers, r \in 1..MaxReducers,
        kb \in {0, 1, DefaultParams.key_buffer_size},
        ps \in {1, DefaultParams.map_partition_size},
        gi \in BOOLEAN,
        loc \in {DefaultParams.map_output_location, <<109, 97, 112, 111, 117, 116, 95>>},
        keep \in BOOLEAN}

NoFiles == [n \in {} |-> <<>>]

\* Files an earlier job left in the working directory under the names of the
\* intermediate files: each holds the record ("z", "0").
LeftoverFiles(p) ==
    [n \in clean_up_names(p.map_output_location, MaxRecords, MaxReducers) |->
        wl_write(wl_write(<<>>, <<122>>), <<48>>)]

JobInit ==
    /\ params \in JobParams
    /\ input \in SeqsUpTo(InputRecords, MaxRecords)
    /\ fs \in {NoFiles, LeftoverFiles(params)}
    /\ chan = 0
    /\ ctl = "run_map"
    /\ map_partitions_run = 0
    /\ mw = <<>>
    /\ rw = <<>>
    /\ sinks = NoFiles
    /\ ioLog = {}

\* The job is not part of the specification.
JobUnused ==
    /\ params = DefaultParams
    /\ input = <<>>
    /\ fs = NoFiles
    /\ chan = 0
    /\ ctl = "unused"
    /\ map_partitions_run = 0
    /\ mw = <<>>
    /\ rw = <<>>
    /\ sinks = NoFiles
    /\ ioLog = {}

\* f with the file name created or truncated to content.
WithFile(f, name, content) ==
    [n \in DOMAIN f \cup {name} |-> IF n = name THEN content ELSE f[n]]

RECURSIVE WithFiles(_, _, _)
WithFiles(f, names, content) ==
    IF names = <<>> THEN f
    ELSE WithFiles(WithFile(f, Head(names), content[1]), Tail(names), Tail(content))

Chunks == 0..(Len(mw) - 1)

Shards == 0..(Len(rw) - 1)

\* The map workers spawned that have not returned their token.
RunningMappers == {i \in Chunks : mw[i + 1].pc # "done"}

\* run_map, lines 82-87: the pool, the channel and its mappers tokens.
CtlPreload ==
    /\ ctl = "run_map"
    /\ chan' = params.mappers
    /\ ctl' = "recv"
    /\ UNCHANGED <<params, input, map_partitions_run, mw, rw, fs, sinks, ioLog, mergeVars, reduceVars, writelogVars, auxVars>>

\* recv.recv(): the controller takes a token, or blocks.
CtlRecvUnguarded ==
    /\ ctl = "recv"
    /\ chan' = IF chan > 0 THEN chan - 1 ELSE 0
    /\ ctl' = "read"
    /\ UNCHANGED <<params, input, map_partitions_run, mw, rw, fs, sinks, ioLog, mergeVars, reduceVars, writelogVars, auxVars>>

\* recv that waits for a token and leaves it in the channel.
CtlRecvLeavingToken ==
    /\ ctl = "recv"
    /\ chan > 0
    /\ chan' = chan
    /\ ctl' = "read"
    /\ UNCHANGED <<params, input, map_partitions_run, mw, rw, fs, sinks, ioLog, mergeVars, reduceVars, writelogVars, auxVars>>

CtlRecv ==
    /\ ctl = "recv"
    /\ chan > 0
    /\ chan' = chan - 1
    /\ ctl' = "read"
    /\ UNCHANGED <<params, input, map_partitions_run, mw, rw, fs, sinks, ioLog, mergeVars, reduceVars, writelogVars, auxVars>>

\* run_map with every worker given shard_id 0.
CtlReadSameShard ==
    /\ ctl = "read"
    /\ LET inp == from_iter_cache(8192, params.map_partition_size, input)
       IN /\ input' = inp.rest
          /\ IF inp.len = 0
             THEN /\ ctl' = "join_all"
                  /\ UNCHANGED <<mw, map_partitions_run>>
             ELSE /\ mw' = Append(mw, [pc |-> "queued", shard_id |-> 0,
                                       chunk |-> SubSeq(input, 1, Len(input) - Len(inp.rest)),
                                       input |-> [len |-> inp.len,
                                                  chunks_iter |-> inp.chunks_iter,
                                                  chunk_iter |-> inp.chunk_iter],
                                       sorted_input |-> <<>>,
                                       sorted_output |-> <<>>, calls |-> <<>>,
                                       emits |-> <<>>])
                  /\ map_partitions_run' = map_partitions_run + 1
                  /\ ctl' = "recv"
    /\ UNCHANGED <<params, chan, rw, fs, sinks, ioLog, mergeVars, reduceVars, writelogVars, auxVars>>

\* run_map, lines 93-108: read the next chunk into an InputCache; break when
\* it is empty, else spawn its worker with shard_id = map_partitions_run.
\* The field chunk keeps the records the read took from the input.
CtlRead ==
    /\ ctl = "read"
    /\ LET inp == from_iter_cache(8192, params.map_partition_size, input)
       IN /\ input' = inp.rest
          /\ IF inp.len = 0
             THEN /\ ctl' = "join_all"
                  /\ UNCHANGED <<mw, map_partitions_run>>
             ELSE /\ mw' = Append(mw, [pc |-> "queued", shard_id |-> map_partitions_run,
                                       chunk |-> SubSeq(input, 1, Len(input) - Len(inp.rest)),
                                       input |-> [len |-> inp.len,
                                                  chunks_iter |-> inp.chunks_iter,
                                                  chunk_iter |-> inp.chunk_iter],
                                       sorted_input |-> <<>>,
                                       sorted_output |-> <<>>, calls |-> <<>>,
                                       emits |-> <<>>])
                  /\ map_partitions_run' = map_partitions_run + 1
                  /\ ctl' = "recv"
    /\ UNCHANGED <<params, chan, rw, fs, sinks, ioLog, mergeVars, reduceVars, writelogVars, auxVars>>

\* scope.join_all(): every map worker has ended; a worker that panicked
\* makes the scope panic.
CtlJoinAllNoWait ==
    /\ ctl = "join_all"
    /\ ctl' = IF \E i \in Chunks : mw[i + 1].pc = "panicked" THEN "aborted" ELSE "run_reduce"
    /\ UNCHANGED <<params, input, chan, map_partitions_run, mw, rw, fs, sinks, ioLog, mergeVars, reduceVars, writelogVars, auxVars>>

CtlJoinAll ==
    /\ ctl = "join_all"
    /\ \A i \in Chunks : mw[i + 1].pc \in {"done", "panicked"}
    /\ ctl' = IF \E i \in Chunks : mw[i + 1].pc = "panicked" THEN "aborted" ELSE "run_reduce"
    /\ UNCHANGED <<params, input, chan, map_partitions_run, mw, rw, fs, sinks, ioLog, mergeVars, reduceVars, writelogVars, auxVars>>

\* map_runner up to sort_input: the worker takes its chunk and sorts it.
MapSortInput(i) ==
    /\ mw[i + 1].pc = "queued"
    /\ mw' = [mw EXCEPT ![i + 1].pc = "do_map",
                        ![i + 1].input = [mw[i + 1].input EXCEPT !.chunks_iter = <<>>,
                                                                 !.chunk_iter = <<>>],
                        ![i + 1].sorted_input = sort_input(<<>>, ic_drain(mw[i + 1].input))]
    /\ UNCHANGED <<params, input, chan, ctl, map_partitions_run, rw, fs, sinks, ioLog, mergeVars, reduceVars, writelogVars, auxVars>>

\* One iteration of the loop of do_map.
MapDoMap(i) ==
    /\ mw[i + 1].pc = "do_map"
    /\ LET res == do_map_iteration(mw[i + 1], params.key_buffer_size)
       IN mw' = [mw EXCEPT ![i + 1] =
                    [res.self EXCEPT !.pc = IF res.break THEN "setup_output" ELSE "do_map"]]
    /\ UNCHANGED <<params, input, chan, ctl, map_partitions_run, rw, fs, sinks, ioLog, mergeVars, reduceVars, writelogVars, auxVars>>

\* setup_output: the worker creates (or truncates) its sink for every reducer.
MapSetupOutput(i) ==
    /\ mw[i + 1].pc = "setup_output"
    /\ LET names == [r \in 1..params.reducers |-> map_sink_name(mw[i + 1].shard_id, r - 1)]
       IN /\ fs' = WithFiles(fs, names, [r \in 1..params.reducers |-> <<>>])
          /\ ioLog' = ioLog \cup {<<"create", names[r], "map", i>> : r \in 1..params.reducers}
    /\ mw' = [mw EXCEPT ![i + 1].pc = "write_output"]
    /\ UNCHANGED <<params, input, chan, ctl, map_partitions_run, rw, sinks, mergeVars, reduceVars, writelogVars, auxVars>>

\* The worker ends without sending its token.
MapWriteOutputKeepingToken(i) ==
    /\ mw[i + 1].pc = "write_output"
    /\ LET names == [r \in 1..params.reducers |-> map_sink_name(mw[i + 1].shard_id, r - 1)]
       IN fs' = WithFiles(fs, names,
                          [r \in 1..params.reducers |->
                              write_sink(<<>>, mw[i + 1].sorted_output, params.reducers, r - 1)])
    /\ mw' = [mw EXCEPT ![i + 1].pc = "done"]
    /\ chan' = chan
    /\ UNCHANGED <<params, input, ctl, map_partitions_run, rw, sinks, ioLog, mergeVars, reduceVars, writelogVars, auxVars>>

\* write_output, then the sinks are dropped and the token is returned.
MapWriteOutput(i) ==
    /\ mw[i + 1].pc = "write_output"
    /\ LET names == [r \in 1..params.reducers |-> map_sink_name(mw[i + 1].shard_id, r - 1)]
       IN fs' = WithFiles(fs, names,
                          [r \in 1..params.reducers |->
                              write_sink(<<>>, mw[i + 1].sorted_output, params.reducers, r - 1)])
    /\ mw' = [mw EXCEPT ![i + 1].pc = "done"]
    /\ chan' = chan + 1
    /\ UNCHANGED <<params, input, ctl, map_partitions_run, rw, sinks, ioLog, mergeVars, reduceVars, writelogVars, auxVars>>

\* The worker panics: the mapper panics (do_map calls it only when the key
\* buffer took a key), a sink cannot be opened, or a write fails.  The
\* closure unwinds and its token is not sent.
MapPanic(i) ==
    /\ mw[i + 1].pc \in {"do_map", "setup_output", "write_output"}
    /\ mw[i + 1].pc = "do_map" =>
          (params.key_buffer_size > 0 /\ Len(mw[i + 1].sorted_input) > 0)
    /\ mw' = [mw EXCEPT ![i + 1].pc = "panicked"]
    /\ UNCHANGED <<params, input, chan, ctl, map_partitions_run, rw, fs, sinks, ioLog, mergeVars, reduceVars, writelogVars, auxVars>>

\* run_reduce: one worker per reducer is handed to the pool.
CtlRunReduce ==
    /\ ctl = "run_reduce"
    /\ rw' = [r \in 1..params.reducers |-> [pc |-> "queued", shard_id |-> r - 1, calls |-> <<>>]]
    /\ ctl' = "join_reduce"
    /\ UNCHANGED <<params, input, chan, map_partitions_run, mw, fs, sinks, ioLog, mergeVars, reduceVars, writelogVars, auxVars>>

\* The reduce worker opens its inputs (unwrap: a missing file panics) and
\* makes its output.
ReduceOpen(r) ==
    /\ rw[r + 1].pc = "queued"
    /\ LET names == {reduce_input_name(params.map_output_location, part, r) :
                        part \in 0..(map_partitions_run - 1)}
           output == get_reduce_output_name(params.reduce_output_shard_prefix, r)
       IN IF names \subseteq DOMAIN fs
          THEN /\ rw' = [rw EXCEPT ![r + 1].pc = "opened"]
               /\ sinks' = WithFile(sinks, output, <<>>)
               /\ ioLog' = ioLog \cup {<<"open", n, "reduce", r>> : n \in names}
                                \cup {<<"output", output, "reduce", r>>}
          ELSE /\ rw' = [rw EXCEPT ![r + 1].pc = "panicked"]
               /\ UNCHANGED <<sinks, ioLog>>
    /\ UNCHANGED <<params, input, chan, ctl, map_partitions_run, mw, fs, mergeVars, reduceVars, writelogVars, auxVars>>

\* ReducePartition::_run: merge, group, reduce, write.
ReduceRun(r) ==
    /\ rw[r + 1].pc = "opened"
    /\ LET srcs == [p \in 1..map_partitions_run |->
                      record_read_iter(wl_entries(
                          fs[reduce_input_name(params.map_output_location, p - 1, r)]))]
           multirecs == reduce_run(srcs, params.reduce_group_insensitive)
           output == get_reduce_output_name(params.reduce_output_shard_prefix, r)
       IN /\ rw' = [rw EXCEPT ![r + 1].pc = "done", ![r + 1].calls = multirecs]
          /\ sinks' = [sinks EXCEPT ![output] = sinks[output] \o reduce_writes(multirecs)]
    /\ UNCHANGED <<params, input, chan, ctl, map_partitions_run, mw, fs, ioLog, mergeVars, reduceVars, writelogVars, auxVars>>

\* The reduce scope is joined when it is dropped.
CtlJoinReduce ==
    /\ ctl = "join_reduce"
    /\ \A r \in Shards : rw[r + 1].pc \in {"done", "panicked"}
    /\ ctl' = IF \E r \in Shards : rw[r + 1].pc = "panicked" THEN "aborted" ELSE "clean_up"
    /\ UNCHANGED <<params, input, chan, map_partitions_run, mw, rw, fs, sinks, ioLog, mergeVars, reduceVars, writelogVars, auxVars>>

\* clean_up
CtlCleanUp ==
    /\ ctl = "clean_up"
    /\ fs' = IF params.keep_temp_files THEN fs
             ELSE [n \in DOMAIN fs \ clean_up_names(params.map_output_location,
                                                    map_partitions_run, params.reducers) |->
                      fs[n]]
    /\ ctl' = "done"
    /\ UNCHANGED <<params, input, chan, map_partitions_run, mw, rw, sinks, ioLog, mergeVars, reduceVars, writelogVars, auxVars>>

JobNext ==
    \/ CtlPreload
    \/ CtlRecv
    \/ CtlRead
    \/ CtlJoinAll
    \/ \E i \in Chunks : MapSortInput(i)
    \/ \E i \in Chunks : MapDoMap(i)
    \/ \E i \in Chunks : MapSetupOutput(i)
    \/ \E i \in Chunks : MapWriteOutput(i)
    \/ \E i \in Chunks : MapPanic(i)
    \/ CtlRunReduce
    \/ \E r \in Shards : ReduceOpen(r)
    \/ \E r \in Shards : ReduceRun(r)
    \/ CtlJoinReduce
    \/ CtlCleanUp

----------------------------------------------------------------------------
(* The merge tree on its own: sources of a bounded size are handed to      *)
(* build or build_with_cmp and the iterator is driven by next.             *)

\* The elements of the sources: 1, 2 or "a", "A", "B".
MergeElems(T) == IF T = "i32" THEN {1, 2} ELSE {<<97>>, <<65>>, <<66>>}

\* The lists of at most k sources that hold at most total elements together.
RECURSIVE MergeSources(_, _, _)
MergeSources(S, k, total) ==
    IF k = 0 THEN {<<>>}
    ELSE LET shorter == MergeSources(S, k - 1, total)
         IN shorter \cup {ss \in {Append(t, src) : t \in {u \in shorter : Len(u) = k - 1},
                                                   src \in SeqsUpTo(S, MaxLen)} :
                             Len(Flatten(ss)) <= total}

MergeInit ==
    /\ m_cmp \in {[T |-> "i32", comparer |-> None],
                  [T |-> "String", comparer |-> None],
                  [T |-> "String", comparer |-> Some("dict_string_compare")]}
    /\ m_sources \in MergeSources(MergeElems(m_cmp.T), MaxK, MaxTotal)
    /\ m_tree = None
    /\ m_out = <<>>
    /\ m_pc = "build"

MergeUnused ==
    /\ m_cmp = [T |-> "i32", comparer |-> None]
    /\ m_sources = <<>>
    /\ m_tree = None
    /\ m_out = <<>>
    /\ m_pc = "unused"

\* build / build_with_cmp
MergeBuild ==
    /\ m_pc = "build"
    /\ m_tree' = Some(smi_build(m_cmp.T, m_sources, m_cmp.comparer))
    /\ m_pc' = "next"
    /\ UNCHANGED <<m_sources, m_cmp, m_out, jobVars, reduceVars, writelogVars, auxVars>>

\* One call of next on the root.
MergeIterNext ==
    /\ m_pc = "next"
    /\ LET res == iter_next(m_tree[1])
       IN /\ m_tree' = Some(res.it)
          /\ IF res.item = None
             THEN m_pc' = "end" /\ m_out' = m_out
             ELSE m_pc' = "next" /\ m_out' = Append(m_out, res.item[1])
    /\ UNCHANGED <<m_sources, m_cmp, jobVars, reduceVars, writelogVars, auxVars>>

MergeNext == MergeBuild \/ MergeIterNext

----------------------------------------------------------------------------
(* The reduce partition on its own: record iterators of a bounded size are *)
(* handed to ReducePartition::new, _run builds the merge and the group-by, *)
(* and reduce drives the group-by with next.                               *)

\* The records of the sources: keys "a", "A", "B", values "1", "2".
ReduceRecords == {[key |-> k, value |-> v] : k \in {<<97>>, <<65>>, <<66>>},
                                             v \in {<<49>>, <<50>>}}

ReduceInit ==
    /\ r_params \in {[DefaultParams EXCEPT !.reduce_group_insensitive = gi,
                                           !.reduce_group_prealloc_size = pre] :
                        gi \in BOOLEAN, pre \in {0, DefaultParams.reduce_group_prealloc_size}}
    /\ r_srcs \in MergeSources(ReduceRecords, MaxSrcs, MaxSrcRecords)
    /\ r_self = None
    /\ r_stream = <<>>
    /\ r_groups = <<>>
    /\ r_pc = "run"

ReduceUnused ==
    /\ r_params = DefaultParams
    /\ r_srcs = <<>>
    /\ r_self = None
    /\ r_stream = <<>>
    /\ r_groups = <<>>
    /\ r_pc = "unused"

\* _run: the merge over the sources is built and wrapped in the group-by;
\* r_stream is what that merge yields.
RedRun ==
    /\ r_pc = "run"
    /\ LET it == smi_build("Record", r_srcs, None)
       IN /\ r_self' = Some(rtm_new(it, r_params))
          /\ r_stream' = drain(it)
    /\ r_pc' = "reduce"
    /\ UNCHANGED <<r_params, r_srcs, r_groups, jobVars, mergeVars, writelogVars, auxVars>>

\* reduce: one turn of the for loop, the reducer is invoked on the next MultiRecord.
RedNext ==
    /\ r_pc = "reduce"
    /\ LET res == rtm_next(r_self[1])
       IN /\ r_self' = Some(res.self)
          /\ IF res.item = None
             THEN r_pc' = "end" /\ r_groups' = r_groups
             ELSE r_pc' = "reduce" /\ r_groups' = Append(r_groups, res.item[1])
    /\ UNCHANGED <<r_params, r_srcs, r_stream, jobVars, mergeVars, writelogVars, auxVars>>

ReduceNext == RedRun \/ RedNext

----------------------------------------------------------------------------
(* The WriteLog codec on its own: byte strings are written with a          *)
(* WriteLogWriter to a sink, then a WriteLogReader reads what the sink     *)
(* holds, with read_vec or as an iterator.                                 *)

\* The bytes of the strings written: "a", and the two bytes of U+00E9.
WlBytes == {97, 195, 169}

\* How many bytes the source of the reader delivers per read call at most.
ReadSizes == {1, 3, 4 + MaxItemLen}

WriteLogInit ==
    /\ w_items \in SeqsUpTo(SeqsUpTo(WlBytes, MaxItemLen), MaxItems)
    /\ w_writer = wlw_new(<<>>)
    /\ w_results = <<>>
    /\ w_src = <<>>
    /\ w_reader = None
    /\ w_mode \in {"read_vec", "iter"}
    /\ w_read = <<>>
    /\ w_pc = "write"

WriteLogUnused ==
    /\ w_items = <<>>
    /\ w_writer = wlw_new(<<>>)
    /\ w_results = <<>>
    /\ w_src = <<>>
    /\ w_reader = None
    /\ w_mode = "iter"
    /\ w_read = <<>>
    /\ w_pc = "unused"

\* One call of write, with the next byte string; the sink accepts or
\* refuses each of the two writes it is asked for.
WlWrite ==
    /\ w_pc = "write"
    /\ Len(w_results) < Len(w_items)
    /\ \E prefix_ok, payload_ok \in BOOLEAN :
          LET res == wlw_write(w_writer, w_items[Len(w_results) + 1], prefix_ok, payload_ok)
          IN /\ w_writer' = res.self
             /\ w_results' = Append(w_results, res.ok)
    /\ UNCHANGED <<w_items, w_src, w_reader, w_mode, w_read, w_pc, jobVars, mergeVars, reduceVars, auxVars>>

\* The writer is dropped and a reader is opened over what the sink holds,
\* or over what is left of it where the stream was cut short.
WlOpenReader ==
    /\ w_pc = "write"
    /\ Len(w_results) = Len(w_items)
    /\ \E n \in 0..Len(w_writer.dest) : w_src' = SubSeq(w_writer.dest, 1, n)
    /\ \E read_size \in ReadSizes : w_reader' = Some(wlr_new(w_src', read_size))
    /\ w_pc' = "read"
    /\ UNCHANGED <<w_items, w_writer, w_results, w_mode, w_read, jobVars, mergeVars, reduceVars, auxVars>>

\* One call of read_vec, until it returns an error.
WlReadVec ==
    /\ w_pc = "read"
    /\ w_mode = "read_vec"
    /\ LET res == read_vec(w_reader[1])
       IN /\ w_reader' = Some(res.self)
          /\ IF res.ok
             THEN w_pc' = "read" /\ w_read' = Append(w_read, res.buf)
             ELSE w_pc' = "end" /\ w_read' = w_read
    /\ UNCHANGED <<w_items, w_writer, w_results, w_src, w_mode, jobVars, mergeVars, reduceVars, auxVars>>

\* One call of next of the iterator, until it returns None.
WlIterNext ==
    /\ w_pc = "read"
    /\ w_mode = "iter"
    /\ LET res == wlr_next(w_reader[1])
       IN /\ w_reader' = Some(res.self)
          /\ IF res.item # None
             THEN w_pc' = "read" /\ w_read' = Append(w_read, res.item[1])
             ELSE w_pc' = "end" /\ w_read' = w_read
    /\ UNCHANGED <<w_items, w_writer, w_results, w_src, w_mode, jobVars, mergeVars, reduceVars, auxVars>>

WriteLogNext == WlWrite \/ WlOpenReader \/ WlReadVec \/ WlIterNext

-----------------------------------------------------------------------------
(* The map partition on its own: one MapPartition run over one chunk.  The  *)
(* repository holds two of them, map.rs, whose maps are keyed by String,    *)
(* and phases/map.rs, whose maps are keyed by DictComparableString.         *)

\* The longest chunk a map partition on its own is run over, in records.
MaxChunk == 2

\* Ord for DictComparableString
dcs_cmp(a, b) == dict_string_compare(a, b)

\* BTreeMap<DictComparableString, _>::insert: where a key comparing Equal is
\* present the value is replaced and the key the map holds is kept.
dcs_btree_insert(map, k, v) ==
    IF \E i \in 1..Len(map) : dcs_cmp(map[i].key, k) = "Equal"
    THEN [i \in 1..Len(map) |->
             IF dcs_cmp(map[i].key, k) = "Equal"
             THEN [key |-> map[i].key, value |-> v] ELSE map[i]]
    ELSE SelectSeq(map, LAMBDA e : dcs_cmp(e.key, k) = "Less")
         \o <<[key |-> k, value |-> v]>>
         \o SelectSeq(map, LAMBDA e : dcs_cmp(e.key, k) = "Greater")

\* BTreeMap<DictComparableString, _>::remove: the map without the entry.
dcs_btree_remove(map, k) == SelectSeq(map, LAMBDA e : dcs_cmp(e.key, k) # "Equal")

\* BTreeMap<DictComparableString, _>::remove: the value removed (None or Some).
dcs_btree_get(map, k) ==
    LET hit == SelectSeq(map, LAMBDA e : dcs_cmp(e.key, k) = "Equal")
    IN IF hit = <<>> THEN None ELSE Some(hit[1].value)

\* MapPartition::sort_input of phases/map.rs
RECURSIVE phases_sort_input(_, _)
phases_sort_input(sorted_input, inp) ==
    IF inp = <<>> THEN sorted_input
    ELSE phases_sort_input(dcs_btree_insert(sorted_input, inp[1].key, inp[1].value),
                           Tail(inp))

\* MapPartition::insert_result of phases/map.rs
RECURSIVE phases_insert_result(_, _)
phases_insert_result(sorted_output, emitter) ==
    IF emitter = <<>> THEN sorted_output
    ELSE LET r == Head(emitter)
             e == dcs_btree_get(sorted_output, r.key)
             v == IF e = None THEN <<r.value>> ELSE Append(e[1], r.value)
         IN phases_insert_result(
                dcs_btree_insert(dcs_btree_remove(sorted_output, r.key), r.key, v),
                Tail(emitter))

\* The second for loop of do_map of phases/map.rs.
RECURSIVE phases_map_keys(_, _)
phases_map_keys(self, key_buffer) ==
    IF key_buffer = <<>> THEN self
    ELSE LET k == Head(key_buffer)
             val == dcs_btree_get(self.sorted_input, k)
         IN IF val = None THEN phases_map_keys(self, Tail(key_buffer))
            ELSE LET e == mapper_func([key |-> k, value |-> val[1]])
                 IN phases_map_keys([self EXCEPT
                                 !.sorted_input = dcs_btree_remove(self.sorted_input, k),
                                 !.sorted_output = phases_insert_result(self.sorted_output, e),
                                 !.calls = Append(self.calls, [key |-> k, value |-> val[1]]),
                                 !.emits = self.emits \o e],
                             Tail(key_buffer))

\* One iteration of the loop of do_map of phases/map.rs.
phases_do_map_iteration(self, key_buffer_size) ==
    LET n == IF Len(self.sorted_input) < key_buffer_size
             THEN Len(self.sorted_input) ELSE key_buffer_size
        key_buffer == [i \in 1..n |-> self.sorted_input[i].key]
    IN [self |-> phases_map_keys(self, key_buffer),
        break |-> Len(key_buffer) < key_buffer_size]

\* phases/output.rs map_output_name
map_output_name(base, mapper, shard_no) ==
    base \o <<45>> \o FormatUsize(mapper) \o <<46>> \o FormatUsize(shard_no)

\* The records a map partition on its own is run over: keys "k", "K",
\* values "a", "a A".
ChunkRecords == {[key |-> k, value |-> v] : k \in {<<107>>, <<75>>},
                                            v \in {<<97>>, <<97, 32, 65>>}}

MapInit ==
    /\ \E variant \in {"map", "phases"}, r \in 1..MaxReducers, kbs \in {0, 1, MaxChunk} :
          p_params = [variant |-> variant, reducers |-> r, key_buffer_size |-> kbs,
                      shard_id |-> 0,
                      map_output_location |-> DefaultParams.map_output_location]
    /\ p_input \in SeqsUpTo(ChunkRecords, MaxChunk)
    /\ p_self = [sorted_input |-> <<>>, sorted_output |-> <<>>, calls |-> <<>>,
                 emits |-> <<>>]
    /\ p_sinks = <<>>
    /\ p_pc = "Created"

\* _run: sort_input
MpSortInput ==
    /\ p_pc = "Created"
    /\ p_self' = [p_self EXCEPT !.sorted_input =
                     IF p_params.variant = "phases"
                     THEN phases_sort_input(<<>>, p_input)
                     ELSE sort_input(<<>>, p_input)]
    /\ p_pc' = "SortedInput"
    /\ UNCHANGED <<p_params, p_input, p_sinks,
                   mapOthers>>

\* _run: one iteration of the loop of do_map; do_map returns when it breaks.
MpDoMap ==
    /\ p_pc = "SortedInput"
    /\ LET res == IF p_params.variant = "phases"
                  THEN phases_do_map_iteration(p_self, p_params.key_buffer_size)
                  ELSE do_map_iteration(p_self, p_params.key_buffer_size)
       IN /\ p_self' = res.self
          /\ p_pc' = IF res.break THEN "Mapped" ELSE "SortedInput"
    /\ UNCHANGED <<p_params, p_input, p_sinks,
                   mapOthers>>

\* _run: write_output, setup_output included: one sink per reducer, named
\* by setup_output, holding what write_output wrote to it.
MpWriteOutput ==
    /\ p_pc = "Mapped"
    /\ p_sinks' = [r \in 1..p_params.reducers |->
                      [name |-> IF p_params.variant = "phases"
                                THEN map_output_name(p_params.map_output_location,
                                                     p_params.shard_id, r - 1)
                                ELSE map_sink_name(p_params.shard_id, r - 1),
                       dest |-> write_sink(<<>>, p_self.sorted_output,
                                           p_params.reducers, r - 1)]]
    /\ p_pc' = "Written"
    /\ UNCHANGED <<p_params, p_input, p_self,
                   mapOthers>>

MapNext == MpSortInput \/ MpDoMap \/ MpWriteOutput

-----------------------------------------------------------------------------
(* The reduce partition and its sink: ReducePartition::_run over record     *)
(* iterators, with a reducer that emits once per value and a sink whose     *)
(* writes can fail.                                                         *)
(*   d_calls     the MultiRecords the reducer was invoked with              *)
(*   d_attempts  the writes attempted on the sink, [buf, ok]                *)
(*   d_dest      what the sink took                                         *)
(*   d_warns     how many WARN lines were printed                           *)

\* The longest source of a reduce partition with a failing sink, in records.
MaxSinkRecords == 3

\* A reducer that emits "key:value" for every value of the group.
reducer_each(multirec) ==
    [i \in 1..Len(multirec.values) |-> multirec.key \o <<58>> \o multirec.values[i]]

\* The records of the sources: keys "a", "b", values "1", "2".
SinkRecordsIn == {[key |-> k, value |-> v] : k \in {<<97>>, <<98>>}, v \in {<<49>>, <<50>>}}

SinkInit ==
    /\ d_srcs \in {<<src>> : src \in SeqsUpTo(SinkRecordsIn, MaxSinkRecords)}
    /\ d_self = None
    /\ d_calls = <<>>
    /\ d_attempts = <<>>
    /\ d_dest = <<>>
    /\ d_warns = 0
    /\ d_pc = "run"

\* _run: the merge over the sources is built and wrapped in the group-by.
RdRun ==
    /\ d_pc = "run"
    /\ d_self' = Some(rtm_new(smi_build("Record", d_srcs, None), DefaultParams))
    /\ d_pc' = "reduce"
    /\ UNCHANGED <<d_srcs, d_calls, d_attempts, d_dest, d_warns, sinkOthers>>

\* The strings among results whose write was taken.
Taken(results, oks) ==
    LET idx == SelectSeq([i \in 1..Len(results) |-> i], LAMBDA i : oks[i])
    IN [j \in 1..Len(idx) |-> results[idx[j]]]

\* reduce with a sink that stops at its first failed write: the emissions of
\* the group after it are not attempted and the loop ends there.
RdReduceAborting ==
    /\ d_pc = "reduce"
    /\ LET res == rtm_next(d_self[1])
       IN /\ d_self' = Some(res.self)
          /\ IF res.item = None
             THEN /\ d_pc' = "end"
                  /\ UNCHANGED <<d_calls, d_attempts, d_dest, d_warns>>
             ELSE LET results == reducer_each(res.item[1])
                  IN \E oks \in [1..Len(results) -> BOOLEAN] :
                        LET n == IF \A i \in 1..Len(results) : oks[i] THEN Len(results)
                                 ELSE CHOOSE i \in 1..Len(results) :
                                          ~oks[i] /\ \A j \in 1..(i - 1) : oks[j]
                        IN /\ d_calls' = Append(d_calls, res.item[1])
                           /\ d_attempts' = d_attempts \o
                                 [i \in 1..n |-> [buf |-> results[i], ok |-> oks[i]]]
                           /\ d_dest' = d_dest \o Taken(SubSeq(results, 1, n), oks)
                           /\ d_warns' = d_warns
                           /\ d_pc' = IF \A i \in 1..Len(results) : oks[i]
                                      THEN "reduce" ELSE "end"
    /\ UNCHANGED <<d_srcs, sinkOthers>>

\* reduce with one REmitter kept over the whole loop: the emissions of the
\* groups before are still in it when the reducer is invoked again.
RdReduceReusingEmitter ==
    /\ d_pc = "reduce"
    /\ LET res == rtm_next(d_self[1])
       IN /\ d_self' = Some(res.self)
          /\ IF res.item = None
             THEN /\ d_pc' = "end"
                  /\ UNCHANGED <<d_calls, d_attempts, d_dest, d_warns>>
             ELSE LET results == Flatten([c \in 1..Len(d_calls) |-> reducer_each(d_calls[c])])
                                 \o reducer_each(res.item[1])
                  IN \E oks \in [1..Len(results) -> BOOLEAN] :
                        /\ d_calls' = Append(d_calls, res.item[1])
                        /\ d_attempts' = d_attempts \o
                              [i \in 1..Len(results) |-> [buf |-> results[i], ok |-> oks[i]]]
                        /\ d_dest' = d_dest \o Taken(results, oks)
                        /\ d_warns' = d_warns
                                      + Cardinality({i \in 1..Len(results) : ~oks[i]})
                        /\ d_pc' = "reduce"
    /\ UNCHANGED <<d_srcs, sinkOthers>>

\* reduce: one turn of the for loop over the MultiRecords.  The reducer is
\* invoked on the next MultiRecord and every string it emitted is written
\* to the sink; a write that fails prints a WARN line.
RdReduce ==
    /\ d_pc = "reduce"
    /\ LET res == rtm_next(d_self[1])
       IN /\ d_self' = Some(res.self)
          /\ IF res.item = None
             THEN /\ d_pc' = "end"
                  /\ UNCHANGED <<d_calls, d_attempts, d_dest, d_warns>>
             ELSE LET results == reducer_each(res.item[1])
                  IN \E oks \in [1..Len(results) -> BOOLEAN] :
                        /\ d_calls' = Append(d_calls, res.item[1])
                        /\ d_attempts' = d_attempts \o
                              [i \in 1..Len(results) |-> [buf |-> results[i], ok |-> oks[i]]]
                        /\ d_dest' = d_dest \o Taken(results, oks)
                        /\ d_warns' = d_warns
                                      + Cardinality({i \in 1..Len(results) : ~oks[i]})
                        /\ d_pc' = "reduce"
    /\ UNCHANGED <<d_srcs, sinkOthers>>

SinkNext == RdRun \/ RdReduce

-----------------------------------------------------------------------------
(* The reduce partition and its inputs: ReducePartition::_run over          *)
(* RecordReadIterators over WriteLogReaders, as run_reduce hands them over. *)
(* One of the inputs is cut short or has a read call that fails.            *)
(*   i_srcs  the inputs: the bytes each holds and which read calls fail     *)
(*   i_it    the group-by over the merge over the inputs                    *)
(*   i_out   the MultiRecords the reducer was invoked with                  *)

\* The longest input of a reduce partition, in records.
MaxInputRecords == 2

\* The latest read call of an input that fails, counted from 0.
MaxReadErrAt == 7

\* The records of the inputs: keys "a", "b", value "1".
InputsRecordsIn == {[key |-> k, value |-> <<49>>] : k \in {<<97>>, <<98>>}}

\* What a map partition writes for records: key entry, value entry, each.
RECURSIVE encode_records(_)
encode_records(recs) ==
    IF recs = <<>> THEN <<>>
    ELSE wl_write(wl_write(<<>>, recs[1].key), recs[1].value) \o encode_records(Tail(recs))

\* Inputs as the map phase wrote them.
IntactInputs ==
    {[data |-> encode_records(recs), errs |-> <<>>] :
        recs \in SeqsUpTo(InputsRecordsIn, MaxInputRecords)}

\* Inputs cut short at any byte.
CutInputs ==
    UNION {{[data |-> SubSeq(f.data, 1, n), errs |-> <<>>] : n \in 0..Len(f.data)} :
              f \in IntactInputs}

\* Inputs of which one read call returns Err.
FailingInputs ==
    {[data |-> f.data, errs |-> [j \in 1..(e + 1) |-> j = e + 1]] :
        f \in IntactInputs, e \in 0..MaxReadErrAt}

InputsInit ==
    /\ \E f \in CutInputs \cup FailingInputs, g \in IntactInputs :
          i_srcs \in {<<f>>, <<f, g>>, <<g, f>>}
    /\ i_it = None
    /\ i_out = <<>>
    /\ i_pc = "run"

\* The RecordReadIterator open_reduce_inputs makes of an input.
open_reduce_input(src) ==
    rri_new(wlr_new_failing(src.data, Len(src.data) + 1, src.errs))

\* _run: the merge over the inputs is built and wrapped in the group-by.
InRun ==
    /\ i_pc = "run"
    /\ i_it' = Some(rtm_new(smi_build_iters("Record",
                                [k \in 1..Len(i_srcs) |-> open_reduce_input(i_srcs[k])],
                                None),
                            DefaultParams))
    /\ i_pc' = "reduce"
    /\ UNCHANGED <<i_srcs, i_out, inputsOthers>>

\* reduce: one turn of the for loop, the reducer is invoked on the next MultiRecord.
InReduce ==
    /\ i_pc = "reduce"
    /\ LET res == rtm_next(i_it[1])
       IN /\ i_it' = Some(res.self)
          /\ IF res.item = None
             THEN i_pc' = "end" /\ i_out' = i_out
             ELSE i_pc' = "reduce" /\ i_out' = Append(i_out, res.item[1])
    /\ UNCHANGED <<i_srcs, inputsOthers>>

InputsNext == InRun \/ InReduce

-----------------------------------------------------------------------------
(* The InputCache on its own: from_iter over a bounded input, then the      *)
(* cache is traversed with next.                                            *)
(*   c_args   the arguments of from_iter                                    *)
(*   c_cache  the InputCache                                                *)
(*   c_out    the records next has yielded                                  *)

\* The longest input an InputCache on its own is built from, in records.
MaxCacheRecords == 3

\* The records of the input: keys "1", "22", values "a", "bbb".
CacheRecords == {[key |-> k, value |-> v] : k \in {<<49>>, <<50, 50>>},
                                            v \in {<<97>>, <<98, 98, 98>>}}

CacheInit ==
    /\ \E chunk_length \in {0, 1, 2, 8192},
          max_bytes \in {0, 1, 4, DefaultParams.map_partition_size},
          it \in SeqsUpTo(CacheRecords, MaxCacheRecords) :
          c_args = [chunk_length |-> chunk_length, max_bytes |-> max_bytes, it |-> it]
    /\ c_cache = None
    /\ c_out = <<>>
    /\ c_pc = "new"

\* InputCache::from_iter
CacheFromIter ==
    /\ c_pc = "new"
    /\ c_cache' = Some(from_iter_cache(c_args.chunk_length, c_args.max_bytes, c_args.it))
    /\ c_pc' = "iter"
    /\ UNCHANGED <<c_args, c_out, cacheOthers>>

\* One call of next, until it returns None.
CacheNext ==
    /\ c_pc = "iter"
    /\ LET res == ic_next(c_cache[1])
       IN /\ c_cache' = Some(res.self)
          /\ IF res.item = None
             THEN c_pc' = "end" /\ c_out' = c_out
             ELSE c_pc' = "iter" /\ c_out' = Append(c_out, res.item[1])
    /\ UNCHANGED <<c_args, cacheOthers>>

CacheSpecStep == CacheFromIter \/ CacheNext

-----------------------------------------------------------------------------
(* encode_u32 and decode_u32 on their own: a u32 is encoded, and the bytes  *)
(* are decoded.                                                             *)

\* The 16-bit halves the values are made of: 0, 1, 0xff, 0x100, 0x1234,
\* 0x5678, 0x7fff, 0x8000, 0xfffe, 0xffff.
CodecHalves == {0, 1, 255, 256, 4660, 22136, 32767, 32768, 65534, 65535}

CodecInit ==
    /\ u_val \in {[hi |-> h, lo |-> l] : h \in CodecHalves, l \in CodecHalves}
    /\ u_buf = <<>>
    /\ u_out = as_u32(0)
    /\ u_pc = "val"

\* encode_u32
CodecEncode ==
    /\ u_pc = "val"
    /\ u_buf' = encode_u32(u_val)
    /\ u_pc' = "encoded"
    /\ UNCHANGED <<u_val, u_out, codecOthers>>

\* decode_u32
CodecDecode ==
    /\ u_pc = "encoded"
    /\ u_out' = decode_u32(u_buf)
    /\ u_pc' = "decoded"
    /\ UNCHANGED <<u_val, u_buf, codecOthers>>

CodecNext == CodecEncode \/ CodecDecode

-----------------------------------------------------------------------------
(* The specifications. *)

MapUnused ==
    /\ p_params = DefaultParams
    /\ p_input = <<>>
    /\ p_self = None
    /\ p_sinks = <<>>
    /\ p_pc = "unused"

CacheUnused ==
    /\ c_args = None
    /\ c_cache = None
    /\ c_out = <<>>
    /\ c_pc = "unused"

CodecUnused ==
    /\ u_val = as_u32(0)
    /\ u_buf = <<>>
    /\ u_out = as_u32(0)
    /\ u_pc = "unused"

SinkUnused ==
    /\ d_srcs = <<>>
    /\ d_self = None
    /\ d_calls = <<>>
    /\ d_attempts = <<>>
    /\ d_dest = <<>>
    /\ d_warns = 0
    /\ d_pc = "unused"

InputsUnused ==
    /\ i_srcs = <<>>
    /\ i_it = None
    /\ i_out = <<>>
    /\ i_pc = "unused"

AuxUnused == MapUnused /\ CacheUnused /\ CodecUnused /\ SinkUnused /\ InputsUnused

Init == JobInit /\ MergeUnused /\ ReduceUnused /\ WriteLogUnused /\ AuxUnused

Next == JobNext

Spec == Init /\ [][Next]_vars

\* Every thread that can take a step eventually takes one.
FairSpec == Spec /\ WF_vars(Next)

MergeSpecInit == MergeInit /\ JobUnused /\ ReduceUnused /\ WriteLogUnused /\ AuxUnused

MergeSpecNext == MergeNext

SpecMerge == MergeSpecInit /\ [][MergeSpecNext]_vars

ReduceSpecInit == ReduceInit /\ JobUnused /\ MergeUnused /\ WriteLogUnused /\ AuxUnused

ReduceSpecNext == ReduceNext

SpecReduce == ReduceSpecInit /\ [][ReduceSpecNext]_vars

WriteLogSpecInit == WriteLogInit /\ JobUnused /\ MergeUnused /\ ReduceUnused /\ AuxUnused

WriteLogSpecNext == WriteLogNext

SpecWriteLog == WriteLogSpecInit /\ [][WriteLogSpecNext]_vars

MapSpecInit == MapInit /\ JobUnused /\ MergeUnused /\ ReduceUnused /\ WriteLogUnused
               /\ CacheUnused /\ CodecUnused /\ SinkUnused /\ InputsUnused

SinkSpecInit == SinkInit /\ JobUnused /\ MergeUnused /\ ReduceUnused /\ WriteLogUnused
                /\ MapUnused /\ CacheUnused /\ CodecUnused /\ InputsUnused

SinkSpecNext == SinkNext

InputsSpecInit == InputsInit /\ JobUnused /\ MergeUnused /\ ReduceUnused /\ WriteLogUnused
                  /\ MapUnused /\ CacheUnused /\ CodecUnused /\ SinkUnused

InputsSpecNext == InputsNext

CodecSpecInit == CodecInit /\ JobUnused /\ MergeUnused /\ ReduceUnused /\ WriteLogUnused
                 /\ MapUnused /\ CacheUnused /\ SinkUnused /\ InputsUnused

CodecSpecNext == CodecNext

SpecCodec == CodecSpecInit /\ [][CodecSpecNext]_vars

CacheSpecInit == CacheInit /\ JobUnused /\ MergeUnused /\ ReduceUnused /\ WriteLogUnused
                 /\ MapUnused /\ CodecUnused /\ SinkUnused /\ InputsUnused

CacheSpecNext == CacheSpecStep

SpecInputCache == CacheSpecInit /\ [][CacheSpecNext]_vars

SpecReduceInputs == InputsSpecInit /\ [][InputsSpecNext]_vars

SpecReduceSink == SinkSpecInit /\ [][SinkSpecNext]_vars

MapSpecNext == MapNext

SpecMapPartition == MapSpecInit /\ [][MapSpecNext]_vars

----------------------------------------------------------------------------
(* What the claims speak of. *)

\* Every record emitted by a mapper invocation of the job, chunk by chunk.
AllEmits == Flatten([i \in 1..Len(mw) |-> mw[i].emits])

EmittedKeys == {e.key : e \in Range(AllEmits)}

\* The values emitted with key k.
EmittedValues(k) ==
    LET hits == SelectSeq(AllEmits, LAMBDA e : e.key = k)
    IN [i \in 1..Len(hits) |-> hits[i].value]

\* The reducer invocations of the job: <<shard, index of the call in the shard>>.
ReduceCalls == {<<r, c>> \in Shards \X (1..(2 * MaxRecords + 2)) : c <= Len(rw[r + 1].calls)}

CallsWithKey(k) == {rc \in ReduceCalls : rw[rc[1] + 1].calls[rc[2]].key = k}

\* The keys of the records of one chunk are pairwise distinct.
DistinctKeysWithinChunks ==
    \A i \in 1..Len(mw) : \A a, b \in 1..Len(mw[i].chunk) :
        a # b => mw[i].chunk[a].key # mw[i].chunk[b].key

MapPanicked == \E i \in Chunks : mw[i + 1].pc = "panicked"

ReducePanicked == \E r \in Shards : rw[r + 1].pc = "panicked"

WorkerFailed == MapPanicked \/ ReducePanicked

\* The intermediate files created by the map workers of this job.
FilesCreated == {e[2] : e \in {x \in ioLog : x[1] = "create"}}

\* The names map worker i writes and the names the reduce phase opens agree.
NamesAgree ==
    \A i \in 0..(MaxRecords - 1), r \in 0..(params.reducers - 1) :
        map_sink_name(i, r) = reduce_input_name(params.map_output_location, i, r)

----------------------------------------------------------------------------
(* C1..C10 *)

\* C1: in a job that completes, with case-sensitive grouping and input keys
\* distinct within each chunk, every key a mapper emitted is reduced exactly
\* once in the whole job, in shard sharder(R, k), with exactly the multiset of
\* the values emitted with it; the reducer is never invoked for a key that no
\* mapper emitted.
C1_EndToEnd ==
    (ctl = "done" /\ ~params.reduce_group_insensitive /\ DistinctKeysWithinChunks) =>
        /\ \A k \in EmittedKeys :
              /\ Cardinality(CallsWithKey(k)) = 1
              /\ \A rc \in CallsWithKey(k) :
                    /\ rc[1] = shard(params.reducers, k)
                    /\ SameMultiset(rw[rc[1] + 1].calls[rc[2]].values, EmittedValues(k))
        /\ \A rc \in ReduceCalls : rw[rc[1] + 1].calls[rc[2]].key \in EmittedKeys

\* C2: once a reduce worker has been spawned, every map worker that was
\* spawned has finished; a map worker and a reduce worker never run at the
\* same time.
C2_MapBeforeReduce ==
    Len(rw) > 0 => \A i \in Chunks : mw[i + 1].pc = "done"

C2_Witness ==
    /\ Len(mw) = 2
    /\ \E r \in Shards : rw[r + 1].pc = "opened"

\* C3: the map workers spawned that have not returned their token are at
\* most params.mappers.
C3_AdmissionBound == Cardinality(RunningMappers) <= params.mappers

C3_Witness ==
    /\ params.mappers = 2
    /\ Cardinality({i \in Chunks : mw[i + 1].pc = "do_map"}) = 2

\* C4: when a map worker has panicked, run stops with a failure and does
\* not block forever (it has aborted, or some thread can still take a
\* step), and no reduce worker is started.
C4_PanicAbortsJob ==
    MapPanicked => (Len(rw) = 0 /\ (ctl = "aborted" \/ ENABLED Next))

\* C5: with a finite input, mappers >= 1, reducers >= 1 and no failing
\* worker, run terminates: as long as run has not returned after clean_up,
\* some thread can take a step that changes the state, so the controller
\* never waits forever and no worker spins forever.
C5_RunTerminates ==
    ~WorkerFailed => (ctl = "done" \/ ENABLED <<Next>>_vars)

\* C6: the name under which map worker i creates its sink for reducer r is
\* the name reduce worker r opens for chunk i and the name clean_up unlinks;
\* every file a reducer opens exists and was created by the map phase of
\* this job.
C6_NamesAgree ==
    /\ \A i \in Chunks, r \in 0..(params.reducers - 1) :
          /\ map_sink_name(mw[i + 1].shard_id, r)
                = reduce_input_name(params.map_output_location, i, r)
          /\ map_sink_name(mw[i + 1].shard_id, r)
                \in clean_up_names(params.map_output_location, map_partitions_run,
                                   params.reducers)
    /\ \A e \in ioLog : e[1] = "open" => e[2] \in FilesCreated
    /\ ~ReducePanicked

\* C7: each intermediate file (chunk i, reducer r) is written by exactly one
\* map worker, the worker of chunk i, and read by exactly one reduce worker,
\* the worker of shard r; no file is read while it is being written.
C7_OneWriterOneReader ==
    /\ \A e1, e2 \in ioLog :
          (e1[1] = "create" /\ e2[1] = "create" /\ e1[2] = e2[2]) => e1[4] = e2[4]
    /\ \A e \in ioLog : e[1] = "create" =>
          \E r \in 0..(params.reducers - 1) : e[2] = map_sink_name(e[4], r)
    /\ \A e \in ioLog : (e[1] = "open" /\ e[2] \in FilesCreated) =>
          \E i \in Chunks : e[2] = map_sink_name(i, e[4])
    /\ ctl \in {"clean_up", "done"} =>
          \A n \in FilesCreated :
              Cardinality({e \in ioLog : e[1] = "open" /\ e[2] = n}) = 1
    /\ \A i \in Chunks, r \in Shards :
          ~(mw[i + 1].pc = "write_output" /\ rw[r + 1].pc = "opened")

\* C8: after run completes with keep_temp_files = false none of the N x R
\* intermediate files written by the map phase remains; with keep_temp_files
\* = true all N x R of them remain.
C8_CleanUp ==
    ctl = "done" =>
        IF params.keep_temp_files
        THEN /\ FilesCreated \subseteq DOMAIN fs
             /\ Cardinality(FilesCreated) = map_partitions_run * params.reducers
        ELSE FilesCreated \cap DOMAIN fs = {}

SourcesSorted ==
    \A k \in 1..Len(m_sources) : IsSortedUnder(m_cmp.T, m_cmp.comparer, m_sources[k])

\* C9: for every number of sources (none, one, odd, even), if every source
\* is sorted under the comparator in use, what the merge iterator has
\* yielded is sorted under that comparator.
C9_MergeSorted ==
    SourcesSorted => IsSortedUnder(m_cmp.T, m_cmp.comparer, m_out)

C9_Witness ==
    /\ m_pc = "end"
    /\ Len(m_sources) = 3
    /\ SourcesSorted
    /\ Len(m_out) >= 4
    /\ m_out # Flatten(m_sources)

\* C10: for every number of finite sources, sorted or not, the merge
\* iterator never yields an element more often than the sources hold it,
\* and when it ends it has yielded every element of every source exactly
\* once.
C10_MergeComplete ==
    /\ \A x \in Range(m_out) : Count(m_out, x) <= Count(Flatten(m_sources), x)
    /\ m_pc = "end" => SameMultiset(m_out, Flatten(m_sources))

C10_Witness ==
    /\ m_pc = "end"
    /\ Len(m_sources) = 3
    /\ ~SourcesSorted
    /\ Len(m_out) >= 5

\* The elements of s that compare Equal to x under the comparison in use,
\* in the order of s.
EqualTo(s, x) ==
    LET Test(e) == compare([T |-> m_cmp.T, comparer |-> m_cmp.comparer], e, x) = "Equal"
    IN SelectSeq(s, Test)

IsPrefix(s, t) == Len(s) <= Len(t) /\ s = SubSeq(t, 1, Len(s))

\* C11: the merge is stable.  For sorted sources, the elements yielded so
\* far that compare Equal to one another come in the order of the index of
\* their source in the list given to build, and those of one source in the
\* order that source holds them; this for every tree _build and merge make.
C11_MergeStable ==
    SourcesSorted =>
        \A x \in Range(m_out) :
            IsPrefix(EqualTo(m_out, x),
                     Flatten([k \in 1..Len(m_sources) |-> EqualTo(m_sources[k], x)]))

C11_Witness ==
    /\ m_pc = "end"
    /\ SourcesSorted
    /\ m_cmp.comparer = Some("dict_string_compare")
    /\ Len(m_sources) = MaxK
    /\ \E k1, k2 \in 1..Len(m_sources) :
          /\ k1 < k2
          /\ m_sources[k1] = <<<<97>>, <<65>>>>
          /\ <<65>> \in Range(m_sources[k2]) \/ <<97>> \in Range(m_sources[k2])
          /\ m_sources[k2] # m_sources[k1]

\* The keys of the records of s are non-decreasing under case-insensitive
\* dictionary order.
KeysSortedDict(s) ==
    \A i \in 1..(Len(s) - 1) : dict_string_compare(s[i].key, s[i + 1].key) # "Greater"

\* C12: whenever every input of the reduce partition is sorted by key under
\* case-insensitive dictionary order, the record stream its merge hands to
\* the group-by is sorted by key under that order, and the reducer is
\* invoked on MultiRecords in ascending key order.
C12_ReduceMergesInDictOrder ==
    (r_pc \in {"reduce", "end"} /\ \A k \in 1..Len(r_srcs) : KeysSortedDict(r_srcs[k])) =>
        /\ KeysSortedDict(r_stream)
        /\ KeysSortedDict(r_groups)

\* The values the records of s hold under the group key gk, in the order of s.
ValuesOfKey(s, gk) ==
    LET Test(rec) == group_key(rec.key, r_params.reduce_group_insensitive) = gk
        recs == SelectSeq(s, Test)
    IN [i \in 1..Len(recs) |-> recs[i].value]

\* No two MultiRecords handed to the reducer have the same key.
GroupKeysDistinct ==
    \A i, j \in 1..Len(r_groups) : i # j => r_groups[i].key # r_groups[j].key

\* C13: within one MultiRecord handed to the reducer, the values are those
\* of its key from input 1 (map chunk 0), then those from input 2, and so on
\* in ascending chunk id, each chunk's values in the order its file holds them.
C13_ValuesByChunk ==
    (r_pc = "end" /\ GroupKeysDistinct) =>
        \A g \in 1..Len(r_groups) :
            r_groups[g].values
                = Flatten([k \in 1..Len(r_srcs) |-> ValuesOfKey(r_srcs[k], r_groups[g].key)])

\* The key under which the group-by files the i-th record of the stream.
StreamKey(i) == group_key(r_stream[i].key, r_params.reduce_group_insensitive)

\* The values of the records of the stream, in order.
StreamValues == [i \in 1..Len(r_stream) |-> r_stream[i].value]

\* The values of the MultiRecords emitted so far, one list after the other.
GroupValues == Flatten([g \in 1..Len(r_groups) |-> r_groups[g].values])

\* C14: in either grouping mode the value lists of the emitted MultiRecords,
\* one after the other, are the values of the records fed to the group-by,
\* in order (a prefix of them until the adaptor ends): nothing is dropped,
\* duplicated or reordered, and no MultiRecord is empty.
C14_GroupByKeepsValues ==
    /\ IsPrefix(GroupValues, StreamValues)
    /\ r_pc = "end" => GroupValues = StreamValues
    /\ \A g \in 1..Len(r_groups) : r_groups[g].values # <<>>

C14_Witness ==
    /\ r_pc = "end"
    /\ Len(r_stream) = MaxSrcRecords
    /\ Len(r_groups) = 2
    /\ StreamValues[1] # StreamValues[2]

\* Records of the stream with equal group keys are adjacent.
EqualKeysAdjacent ==
    \A i, j \in 1..Len(r_stream) :
        (i < j /\ StreamKey(i) = StreamKey(j)) => \A m \in i..j : StreamKey(m) = StreamKey(i)

\* C15: when the records fed to the group-by have equal keys (after lowering
\* when insensitive) adjacent, any two distinct MultiRecords emitted have
\* distinct keys.
C15_GroupKeysDistinct ==
    (r_pc \in {"reduce", "end"} /\ EqualKeysAdjacent) => GroupKeysDistinct

C15_Witness ==
    /\ r_pc = "end"
    /\ r_params.reduce_group_insensitive
    /\ EqualKeysAdjacent
    /\ Len(r_groups) = 2
    /\ \E i \in 1..(Len(r_stream) - 1) :
          r_stream[i].key # r_stream[i + 1].key /\ StreamKey(i) = StreamKey(i + 1)

\* The position in the stream of the first record of the g-th MultiRecord.
RECURSIVE GroupStart(_)
GroupStart(g) == IF g = 1 THEN 1 ELSE GroupStart(g - 1) + Len(r_groups[g - 1].values)

\* C16: the group-by emits exactly one MultiRecord per maximal run of
\* adjacent records with equal keys, keys compared after ASCII lower-casing
\* when reduce_group_insensitive is set and byte for byte when it is not, for
\* every reduce_group_prealloc_size: the g-th MultiRecord covers a run of
\* records of its key that the record before it and the record after it do
\* not continue, and at the end the runs cover the stream.
C16_GroupsAreMaximalRuns ==
    /\ \A g \in 1..Len(r_groups) :
          LET first == GroupStart(g)
              last == GroupStart(g) + Len(r_groups[g].values) - 1
          IN /\ last <= Len(r_stream)
             /\ \A i \in first..last : StreamKey(i) = r_groups[g].key
             /\ last < Len(r_stream) => StreamKey(last + 1) # r_groups[g].key
             /\ first > 1 => StreamKey(first - 1) # r_groups[g].key
    /\ r_pc = "end" => GroupStart(Len(r_groups) + 1) = Len(r_stream) + 1

C16_Witness ==
    /\ r_pc = "end"
    /\ ~r_params.reduce_group_insensitive
    /\ r_params.reduce_group_prealloc_size = 0
    /\ Len(r_groups) = MaxSrcRecords
    /\ \E i \in 1..(Len(r_stream) - 1) :
          /\ r_stream[i].key # r_stream[i + 1].key
          /\ str_to_ascii_lowercase(r_stream[i].key) = str_to_ascii_lowercase(r_stream[i + 1].key)

\* The sink has accepted every write it was asked for.
AllWritesAccepted == \A i \in 1..Len(w_results) : w_results[i]

\* C17: WriteLog round trip.  When the byte strings s1..sn (empty ones
\* included) are written in order to a sink that accepts every write and the
\* bytes produced are read back, the reader yields s1..sn in order (a prefix
\* of them while it is reading) and then ends.
C17_WriteLogRoundTrip ==
    (w_pc \in {"read", "end"} /\ AllWritesAccepted /\ w_src = w_writer.dest) =>
        /\ IsPrefix(w_read, w_items)
        /\ w_pc = "end" => w_read = w_items

\* The sum of 4 + |si| over the byte strings of items.
RECURSIVE EncodedLength(_)
EncodedLength(items) ==
    IF items = <<>> THEN 0 ELSE 4 + Len(Head(items)) + EncodedLength(Tail(items))

\* C18: after n successful writes of s1..sn to a fresh WriteLogWriter,
\* get_stats reports (sum of (4 + |si|), n).
C18_WriterStats ==
    AllWritesAccepted =>
        wlw_get_stats(w_writer)
            = <<EncodedLength(SubSeq(w_items, 1, Len(w_results))), Len(w_results)>>

C18_Witness ==
    /\ AllWritesAccepted
    /\ Len(w_results) = MaxItems
    /\ w_items[1] = <<>>
    /\ Len(w_items[2]) = MaxItemLen

\* The records an intermediate file holds.
FileRecords(name) == record_read_iter(wl_entries(fs[name]))

\* C19: in every intermediate file written by a map partition the entries
\* alternate key, value, and successive keys are non-decreasing under
\* case-insensitive dictionary order.
C19_MapFilesInDictOrder ==
    \A name \in FilesCreated \cap DOMAIN fs :
        /\ Len(wl_entries(fs[name])) % 2 = 0
        /\ KeysSortedDict(FileRecords(name))

\* C20: sharding correctness.  Within the R intermediate files of one map
\* chunk, every key that appears in file r satisfies r = sharder(R, key), so
\* no key appears in two of the R files of the chunk.
C20_ShardingCorrect ==
    \A i \in Chunks, r \in 0..(params.reducers - 1) :
        LET name == map_sink_name(mw[i + 1].shard_id, r)
        IN (name \in FilesCreated \cap DOMAIN fs) =>
              \A j \in 1..Len(FileRecords(name)) :
                  shard(params.reducers, FileRecords(name)[j].key) = r

C20_Witness ==
    /\ params.reducers = MaxReducers
    /\ \E i \in Chunks :
          /\ mw[i + 1].pc = "done"
          /\ \A r \in 0..(params.reducers - 1) :
                /\ map_sink_name(mw[i + 1].shard_id, r) \in DOMAIN fs
                /\ FileRecords(map_sink_name(mw[i + 1].shard_id, r)) # <<>>

\* The names of the R intermediate files of map chunk i.
ChunkFiles(i) == {map_sink_name(mw[i + 1].shard_id, r) : r \in 0..(params.reducers - 1)}

\* The records the R intermediate files of map chunk i hold, file after file.
ChunkFileRecords(i) ==
    Flatten([r \in 1..params.reducers |-> FileRecords(map_sink_name(mw[i + 1].shard_id, r - 1))])

\* The records the sinks of the map partition run on its own hold, sink after sink.
SinkRecords ==
    Flatten([r \in 1..Len(p_sinks) |-> record_read_iter(wl_entries(p_sinks[r].dest))])

\* C21: completeness of the map partition.  Once a chunk is written, the
\* (key, value) pairs its mapper invocations emitted are, as a multiset, the
\* (key, value) entry pairs of its R intermediate files, every key in the
\* spelling it was emitted with, also when emitted keys differ only in
\* letter case.
C21_MapComplete ==
    p_pc = "Written" => SameMultiset(SinkRecords, p_self.emits)

\* The same of the MapPartition of map.rs alone, as the job runs it.
MapRsComplete ==
    \A i \in Chunks :
        (mw[i + 1].pc = "done" /\ ChunkFiles(i) \subseteq DOMAIN fs) =>
            SameMultiset(ChunkFileRecords(i), mw[i + 1].emits)

\* The same of the MapPartition of map.rs alone, run on its own.
MapRsCompleteAlone ==
    (p_pc = "Written" /\ p_params.variant = "map") =>
        SameMultiset(SinkRecords, p_self.emits)

\* C22: MapPartition is a linear state machine Created -> SortedInput ->
\* Mapped -> Written in which each transition is total: from every state
\* before Written, for every chunk and every parameter value (key_buffer_size
\* = 0 and the empty chunk included), _run takes a step that moves on:
\* sort_input finishes, do_map terminates and write_output is reached.
C22_TransitionsTotal ==
    p_pc \in {"Created", "SortedInput", "Mapped"} => ENABLED <<MapNext>>_vars

\* With key_buffer_size >= 1 every transition is total.
TransitionsTotalWithBuffer ==
    (p_pc \in {"Created", "SortedInput", "Mapped"} /\ p_params.key_buffer_size >= 1)
        => ENABLED <<MapNext>>_vars

\* The names reduce worker r has opened for reading.
OpenedBy(r) == {e[2] : e \in {x \in ioLog : x[1] = "open" /\ x[4] = r}}

\* The names reduce worker r has made an output sink under.
OutputsOf(r) == {e[2] : e \in {x \in ioLog : x[1] = "output" /\ x[4] = r}}

\* C23: the reduce phase runs exactly one reduce worker for every r in
\* [0, reducers) and no other; worker r runs with shard_id = r, opens exactly
\* the N intermediate inputs of shard r, the one map chunk i wrote for r for
\* every i in [0, N), N being the controller's chunk counter, and writes only
\* to the output named reduce_output_shard_prefix followed by r.
C23_ReduceWorkers ==
    Len(rw) > 0 =>
        /\ Len(rw) = params.reducers
        /\ \A r \in Shards :
              /\ rw[r + 1].shard_id = r
              /\ rw[r + 1].pc # "queued" =>
                    /\ OpenedBy(r) = {map_sink_name(mw[i + 1].shard_id, r) :
                                         i \in 0..(map_partitions_run - 1)}
                    /\ OutputsOf(r) = {params.reduce_output_shard_prefix \o FormatUsize(r)}

\* Where the names of the two phases agree, C23 holds.
ReduceWorkersWhereNamesAgree == NamesAgree => C23_ReduceWorkers

\* Whatever the names of the map phase: the reduce phase runs one worker for
\* every r in [0, reducers), worker r has shard_id = r, opens nothing but the
\* names map_output_location, i, ".", r for i in [0, N), all N of them unless
\* it panics on a missing one, and makes no output but the one of r.
ReduceWorkersByName ==
    Len(rw) > 0 =>
        /\ Len(rw) = params.reducers
        /\ \A r \in Shards :
              /\ rw[r + 1].shard_id = r
              /\ rw[r + 1].pc \in {"opened", "done"} =>
                    /\ OpenedBy(r) = {reduce_input_name(params.map_output_location, i, r) :
                                         i \in 0..(map_partitions_run - 1)}
                    /\ OutputsOf(r) = {params.reduce_output_shard_prefix \o FormatUsize(r)}
              /\ rw[r + 1].pc \in {"queued", "panicked"} =>
                    OpenedBy(r) = {} /\ OutputsOf(r) = {}

\* C24: after run completes, a final shard output exists for every r in
\* [0, R): every reduce worker has made its output sink, also where no key
\* was routed to its shard and where the input was empty (N = 0).
C24_OutputsExist ==
    ctl = "done" =>
        \A r \in 0..(params.reducers - 1) :
            (params.reduce_output_shard_prefix \o FormatUsize(r)) \in DOMAIN sinks

\* A completed run of R = 2 reducers over the empty input.
C24_Witness ==
    /\ ctl = "done"
    /\ params.reducers = MaxReducers
    /\ map_partitions_run = 0

\* A completed run of R = 2 reducers over N >= 1 chunks in which no key was
\* routed to shard 0, whose output exists and is empty.
C24_WitnessEmptyShard ==
    /\ ctl = "done"
    /\ params.reducers = MaxReducers
    /\ map_partitions_run >= 1
    /\ rw[1].calls = <<>>
    /\ rw[2].calls # <<>>
    /\ sinks[params.reduce_output_shard_prefix \o FormatUsize(0)] = <<>>

\* The MultiRecords the sources of the reduce partition with a failing sink
\* make up.
SinkGroups ==
    records_to_multirecords(drain(smi_build("Record", d_srcs, None)), FALSE)

\* C25: a failed write of a reducer emission to the final sink does not
\* abort the reduce phase.  Every failure is logged; every emission of every
\* group the reducer was invoked with has been attempted, those after a
\* failed one of the same group included; the loop goes on after a failure,
\* and at its end the reducer has been invoked for every MultiRecord.
C25_FailedWriteGoesOn ==
    /\ [i \in 1..Len(d_attempts) |-> d_attempts[i].buf]
          = Flatten([c \in 1..Len(d_calls) |-> reducer_each(d_calls[c])])
    /\ d_warns = Cardinality({i \in 1..Len(d_attempts) : ~d_attempts[i].ok})
    /\ d_calls = SubSeq(SinkGroups, 1, Len(d_calls))
    /\ d_pc = "end" => d_calls = SinkGroups

\* The first write of a group with two emissions failed, the second was
\* attempted, and the reducer was invoked for the group after it.
C25_Witness ==
    /\ d_pc = "end"
    /\ Len(d_calls) = 2
    /\ Len(d_calls[1].values) = 2
    /\ Len(d_attempts) = 3
    /\ ~d_attempts[1].ok
    /\ d_attempts[2].ok

\* The RecordReadIterators of a merge tree, in the order of the inputs.
RECURSIVE Leaves(_)
Leaves(it) ==
    IF it.kind = "merge" THEN Leaves(it.left) \o Leaves(it.right)
    ELSE IF it.kind = "rri" THEN <<it>> ELSE <<>>

\* The iterator as its first None leaves it.
RECURSIVE AtFirstNone(_)
AtFirstNone(it) ==
    LET res == iter_next(it)
    IN IF res.item = None THEN res.it ELSE AtFirstNone(res.it)

\* The records the reducer was handed, group after group.
ReceivedRecords ==
    Flatten([g \in 1..Len(i_out) |->
                [j \in 1..Len(i_out[g].values) |->
                    [key |-> i_out[g].key, value |-> i_out[g].values[j]]]])

\* C26: when an intermediate input ends early (a read error in the middle
\* of an entry, or a key entry without its value entry), that input is
\* treated as ended from that point on.  When the reduce loop has ended the
\* reducer has received, of every input, the complete records read from it
\* before it first failed or ended, and no others; and nothing more was read
\* from any input after that point.
C26_EndedInputStaysEnded ==
    i_pc = "end" =>
        /\ SameMultiset(ReceivedRecords,
                        Flatten([k \in 1..Len(i_srcs) |->
                                    drain(open_reduce_input(i_srcs[k]))]))
        /\ \A k \in 1..Len(i_srcs) :
              Leaves(i_it[1].it.it)[k].i.src.data
                  = AtFirstNone(open_reduce_input(i_srcs[k])).i.src.data

\* Where no read call returns Err, that is where the input is only cut
\* short, C26 holds.
EndedInputStaysEndedWhenCut ==
    (\A k \in 1..Len(i_srcs) : i_srcs[k].errs = <<>>) => C26_EndedInputStaysEnded

\* The records handed to the reducer alone, where a read call returns Err.
ReceivedWhatWasComplete ==
    i_pc = "end" =>
        SameMultiset(ReceivedRecords,
                     Flatten([k \in 1..Len(i_srcs) |->
                                 drain(open_reduce_input(i_srcs[k]))]))

\* The entries a stream holds in full, in order.
RECURSIVE CompleteEntries(_)
CompleteEntries(data) ==
    IF Len(data) < 4 THEN <<>>
    ELSE LET n == as_usize(decode_u32(SubSeq(data, 1, 4)))
         IN IF Len(data) - 4 < n THEN <<>>
            ELSE <<SubSeq(data, 5, 4 + n)>>
                 \o CompleteEntries(SubSeq(data, 5 + n, Len(data)))

\* The stream ends in the middle of an entry: in its prefix or in its payload.
EndsMidEntry(data) == Len(data) > EncodedLength(CompleteEntries(data))

\* C27: for a WriteLog stream that ends in the middle of an entry, in the
\* length prefix or in the payload, read_vec returns each complete preceding
\* entry unchanged and then an error, never a short or zero-padded payload,
\* also where the source delivers short reads; the iterator yields exactly
\* the complete entries and then ends.
C27_CutStream ==
    (w_pc \in {"read", "end"} /\ EndsMidEntry(w_src)) =>
        /\ IsPrefix(w_read, CompleteEntries(w_src))
        /\ w_pc = "end" => w_read = CompleteEntries(w_src)

\* The part of C27 on read_vec.
CutStreamReadVec == w_mode = "read_vec" => C27_CutStream

\* C27 where every complete entry of the stream is UTF-8.
CutStreamUtf8 ==
    (\A e \in Range(CompleteEntries(w_src)) : from_utf8_ok(e)) => C27_CutStream

\* read_vec over a stream cut short in a payload, read one byte at a time,
\* has returned the one entry before it and then the error.
CutStreamReadVecWitness ==
    /\ w_pc = "end"
    /\ w_mode = "read_vec"
    /\ EndsMidEntry(w_src)
    /\ Len(w_src) = 4 + MaxItemLen + 4 + 1
    /\ w_reader[1].src.read_size = 1
    /\ Len(w_read) = 1

\* C28: when reduce_group_insensitive is set, the key supplied to reduce is
\* the first encountered key of the group: the key of the MultiRecord is the
\* key of the first record of the group, in the spelling of that record.
C28_FirstKeySupplied ==
    r_params.reduce_group_insensitive =>
        \A g \in 1..Len(r_groups) : r_groups[g].key = r_stream[GroupStart(g)].key

\* What the code supplies: the first encountered key, ASCII lower-cased.
FirstKeyLoweredSupplied ==
    r_params.reduce_group_insensitive =>
        \A g \in 1..Len(r_groups) :
            r_groups[g].key = str_to_ascii_lowercase(r_stream[GroupStart(g)].key)

\* With case-sensitive grouping the key of the first record is supplied as it is.
FirstKeySuppliedSensitive ==
    ~r_params.reduce_group_insensitive =>
        \A g \in 1..Len(r_groups) : r_groups[g].key = r_stream[GroupStart(g)].key

\* The bytes of records: the sum of key length plus value length.
RECURSIVE RecordBytes(_)
RecordBytes(recs) ==
    IF recs = <<>> THEN 0
    ELSE Len(recs[1].key) + Len(recs[1].value) + RecordBytes(Tail(recs))

\* The records an InputCache holds that next has not yielded.
CacheHolds(cache) == cache.chunk_iter \o Flatten(cache.chunks_iter)

\* C29: an InputCache built by from_iter(chunk_length, max_bytes, it) holds
\* up to max_bytes bytes of records: the sum of key length plus value length
\* over the records it contains never exceeds max_bytes.
C29_CacheWithinMaxBytes ==
    c_pc \in {"iter", "end"} =>
        RecordBytes(c_out \o CacheHolds(c_cache[1])) <= c_args.max_bytes

\* What from_iter does keep: the cache holds the records of the input up to
\* and including the first with which max_bytes is reached (at least one
\* record of a non-empty input), so without its last record it is below
\* max_bytes.
CacheBelowMaxBytesWithoutLast ==
    c_pc \in {"iter", "end"} =>
        LET recs == c_out \o CacheHolds(c_cache[1])
        IN /\ Len(recs) > 1 => RecordBytes(SubSeq(recs, 1, Len(recs) - 1)) < c_args.max_bytes
           /\ recs \o c_cache[1].rest = c_args.it
           /\ (c_cache[1].rest # <<>>) => RecordBytes(recs) >= c_args.max_bytes
           /\ recs = from_iter(c_args.chunk_length, c_args.max_bytes, c_args.it).records

\* C30: decode_u32(encode_u32(v)) = v for every 32-bit unsigned value v, and
\* encode_u32 places the most significant byte first (big-endian): the four
\* bytes are below 256, the first two make up the high half of v and the
\* last two the low half, the more significant byte first in each.
C30_U32RoundTrip ==
    /\ u_pc \in {"encoded", "decoded"} =>
          /\ Len(u_buf) = 4
          /\ \A i \in 1..4 : u_buf[i] \in 0..255
          /\ u_buf[1] * 256 + u_buf[2] = u_val.hi
          /\ u_buf[3] * 256 + u_buf[4] = u_val.lo
    /\ u_pc = "decoded" => u_out = u_val

\* 0x12345678 was encoded as 0x12, 0x34, 0x56, 0x78 and decoded.
C30_Witness ==
    /\ u_pc = "decoded"
    /\ u_val = [hi |-> 4660, lo |-> 22136]
    /\ u_buf = <<18, 52, 86, 120>>
    /\ u_out = u_val

\* 0xffffffff made the round trip.
U32MaxWitness ==
    /\ u_pc = "decoded"
    /\ u_val = [hi |-> 65535, lo |-> 65535]
    /\ u_out = u_val

\* C31: the controller gives the spawned map workers the shard_ids 0, 1, 2,
\* ... in the order it reads their chunks, whatever order they complete in:
\* the ids are pairwise distinct and are exactly 0..N-1, N being
\* map_partitions_run.
C31_ShardIdsAscending ==
    /\ Len(mw) = map_partitions_run
    /\ \A i \in Chunks : mw[i + 1].shard_id = i
    /\ \A i, j \in Chunks : i # j => mw[i + 1].shard_id # mw[j + 1].shard_id
    /\ {mw[i + 1].shard_id : i \in Chunks} = 0..(map_partitions_run - 1)

\* The second chunk's worker is done while the first one's has not started.
C31_Witness ==
    /\ map_partitions_run = 2
    /\ mw[2].pc = "done"
    /\ mw[1].pc = "queued"
    /\ mw[1].shard_id = 0 /\ mw[2].shard_id = 1

\* The records of the chunks read so far, in ascending chunk id.
ChunksRead == Flatten([i \in 1..Len(mw) |-> mw[i].chunk])

\* C32: the input is consumed by the controller alone, in its read step, and
\* split without loss: every step keeps (the chunks read so far, in ascending
\* chunk id) followed by (the input left) the same sequence; every chunk
\* handed to a worker is non-empty; the InputCache of a worker that has not
\* started yields the records of its chunk in insertion order and its len is
\* their number.
C32_SplitWithoutLoss ==
    /\ [][/\ ChunksRead' \o input' = ChunksRead \o input
          /\ input' # input => ctl = "read"]_vars
    /\ [](\A i \in Chunks :
             /\ Len(mw[i + 1].chunk) > 0
             /\ mw[i + 1].input.len = Len(mw[i + 1].chunk)
             /\ mw[i + 1].pc = "queued" => ic_drain(mw[i + 1].input) = mw[i + 1].chunk)

\* Two records were split into two chunks; the first cache is still whole,
\* the second has been traversed.
C32_Witness ==
    /\ Len(mw) = 2
    /\ input = <<>>
    /\ mw[1].chunk # mw[2].chunk
    /\ mw[1].pc = "queued"
    /\ mw[2].pc = "do_map"

\* Two records were read into one chunk.
OneChunkOfTwoWitness ==
    /\ Len(mw) = 1
    /\ Len(mw[1].chunk) = 2
    /\ mw[1].chunk[1] # mw[1].chunk[2]
    /\ mw[1].pc = "do_map"

\* An InputCache built with any chunk_length yields, once traversed, the
\* records from_iter took from the iterator, in order, len of them, and
\* leaves the others in the iterator.
CacheYieldsWhatItTook ==
    c_pc = "end" =>
        /\ c_out \o from_iter_cache(c_args.chunk_length, c_args.max_bytes, c_args.it).rest
              = c_args.it
        /\ c_cache[1].len = Len(c_out)

\* A cache of three records in inner chunks of one record was traversed.
CacheYieldsWhatItTookWitness ==
    /\ c_pc = "end"
    /\ c_args.chunk_length = 1
    /\ Len(c_out) = 3

\* What sort_input left in the sorted input map of the partition.
SortedChunk ==
    IF p_params.variant = "phases" THEN phases_sort_input(<<>>, p_input)
    ELSE sort_input(<<>>, p_input)

\* C33: when do_map has returned and key_buffer_size >= 1, the sorted input
\* map is empty and the mapper was invoked exactly once for every key the
\* map held after sort_input, in ascending key order, each time with the
\* value stored for that key.
C33_DoMapDrains ==
    (p_pc \in {"Mapped", "Written"} /\ p_params.key_buffer_size >= 1) =>
        /\ p_self.sorted_input = <<>>
        /\ p_self.calls = [i \in 1..Len(SortedChunk) |->
                              [key |-> SortedChunk[i].key, value |-> SortedChunk[i].value]]

\* do_map of map.rs returned after a chunk whose number of keys is its
\* key_buffer_size, two.
C33_Witness ==
    /\ p_pc = "Mapped"
    /\ p_params.variant = "map"
    /\ Len(SortedChunk) = 2
    /\ p_params.key_buffer_size = Len(SortedChunk)
    /\ Len(p_self.calls) = 2

\* do_map of phases/map.rs returned after a chunk of one key with
\* key_buffer_size one.
DoMapDrainsPhasesWitness ==
    /\ p_pc = "Mapped"
    /\ p_params.variant = "phases"
    /\ p_params.key_buffer_size = 1
    /\ Len(p_self.calls) = 1

\* Equality of two keys under the key ordering of the sorted input map.
KeysEqual(a, b) ==
    IF p_params.variant = "phases" THEN dcs_cmp(a, b) = "Equal" ELSE a = b

\* The value of the last record of the chunk whose key equals k.
LastValueOf(k) ==
    LET idx == {i \in 1..Len(p_input) : KeysEqual(p_input[i].key, k)}
    IN p_input[CHOOSE i \in idx : \A j \in idx : j <= i].value

\* C34: after sort_input, the records of the chunk whose keys are equal
\* under the map's key ordering have exactly one entry in the sorted input
\* map, holding the value of the record read last; once do_map has returned
\* (key_buffer_size >= 1) the mapper was invoked once for that key, with
\* that last value.
C34_LaterValueReplaces ==
    /\ p_pc = "SortedInput" /\ p_self.calls = <<>> =>
          \A n \in 1..Len(p_input) :
             LET hits == {i \in 1..Len(p_self.sorted_input) :
                             KeysEqual(p_self.sorted_input[i].key, p_input[n].key)}
             IN /\ Cardinality(hits) = 1
                /\ \A i \in hits :
                      p_self.sorted_input[i].value = LastValueOf(p_input[n].key)
    /\ p_pc \in {"Mapped", "Written"} /\ p_params.key_buffer_size >= 1 =>
          \A n \in 1..Len(p_input) :
             LET hits == {i \in 1..Len(p_self.calls) :
                             KeysEqual(p_self.calls[i].key, p_input[n].key)}
             IN /\ Cardinality(hits) = 1
                /\ \A i \in hits : p_self.calls[i].value = LastValueOf(p_input[n].key)

\* map.rs: two records of one key with different values were sorted and
\* mapped.
C34_Witness ==
    /\ p_pc = "Mapped"
    /\ p_params.variant = "map"
    /\ p_params.key_buffer_size >= 1
    /\ Len(p_input) = 2
    /\ p_input[1].key = p_input[2].key
    /\ p_input[1].value # p_input[2].value
    /\ Len(p_self.calls) = 1

\* phases/map.rs: two records whose keys differ in case only, with different
\* values, were sorted and mapped.
LaterValueReplacesPhasesWitness ==
    /\ p_pc = "Mapped"
    /\ p_params.variant = "phases"
    /\ p_params.key_buffer_size >= 1
    /\ Len(p_input) = 2
    /\ p_input[1].key # p_input[2].key
    /\ p_input[1].value # p_input[2].value
    /\ Len(p_self.calls) = 1

\* The strings handed to the write calls made so far, in call order.
WriteCalls == [i \in 1..Len(d_attempts) |-> d_attempts[i].buf]

\* C35: for each MultiRecord of the group-by the reducer is invoked exactly
\* once, with an empty REmitter, and then one write call is issued per
\* emitted string, in emission order, before the reducer is invoked for the
\* next group: a turn of the loop invokes the reducer on the next MultiRecord
\* and appends to the write calls exactly the emissions of that invocation;
\* no write call is made otherwise; at the end every MultiRecord has had its
\* one invocation.
C35_OneWritePerEmission ==
    /\ [][IF d_calls' # d_calls
          THEN /\ Len(d_calls') = Len(d_calls) + 1
               /\ d_calls' = SubSeq(SinkGroups, 1, Len(d_calls'))
               /\ WriteCalls' = WriteCalls \o reducer_each(d_calls'[Len(d_calls')])
          ELSE WriteCalls' = WriteCalls]_vars
    /\ [](d_pc = "end" => d_calls = SinkGroups)

\* The reducer was invoked for a group of two values and then for another
\* group: three write calls, the two of the first group first.
C35_Witness ==
    /\ d_pc = "end"
    /\ Len(d_calls) = 2
    /\ Len(d_calls[1].values) = 2
    /\ Len(d_attempts) = 3
    /\ \A i \in 1..3 : d_attempts[i].ok
    /\ d_dest = reducer_each(d_calls[1]) \o reducer_each(d_calls[2])

\* A step is a call of write: it has one more result.
WriteCalled == Len(w_results') = Len(w_results) + 1

\* The byte string of the call of write a step makes, and its length prefix.
WrittenItem == w_items[Len(w_results) + 1]

WrittenPrefix == encode_u32(as_u32(Len(WrittenItem)))

C37_NoPayloadWithoutPrefix ==
    [][(WriteCalled /\ ~w_results'[Len(w_results')]) =>
          w_writer'.dest \in {w_writer.dest, w_writer.dest \o WrittenPrefix}]_vars

\* What a failed call of write leaves in the sink: nothing, the length
\* prefix alone, or the payload alone.
FailedWriteLeaves ==
    [][(WriteCalled /\ ~w_results'[Len(w_results')]) =>
          w_writer'.dest \in {w_writer.dest, w_writer.dest \o WrittenPrefix,
                              w_writer.dest \o WrittenItem}]_vars

\* A failed write left its payload in the sink without a length prefix.
PayloadWithoutPrefixWitness ==
    /\ w_results = <<FALSE>>
    /\ w_items[1] # <<>>
    /\ w_writer.dest = w_items[1]

\* The number of bytes the reader has consumed from its source.
BytesConsumed == Len(w_src) - Len(w_reader[1].src.data)

\* C40: after read_vec has returned n entries s1..sn (and no error),
\* get_stats of the reader is (n, sum of 4 + |si|), and bytes_read is the
\* number of bytes consumed from the source, whatever the number of bytes
\* the source delivers per read call.
C40_ReaderStats ==
    (w_pc = "read" /\ w_mode = "read_vec") =>
        /\ w_reader[1].records_read = Len(w_read)
        /\ w_reader[1].bytes_read = EncodedLength(w_read)
        /\ w_reader[1].bytes_read = BytesConsumed

\* The same where every read call delivers all the bytes asked for.
ReaderStatsWholeReads ==
    (w_pc = "read" /\ w_mode = "read_vec" /\ w_reader[1].src.read_size >= 4 + MaxItemLen) =>
        /\ w_reader[1].records_read = Len(w_read)
        /\ w_reader[1].bytes_read = EncodedLength(w_read)
        /\ w_reader[1].bytes_read = BytesConsumed

\* records_read and the bytes consumed are right with short reads too.
ReaderRecordsAndConsumed ==
    (w_pc = "read" /\ w_mode = "read_vec") =>
        /\ w_reader[1].records_read = Len(w_read)
        /\ BytesConsumed = EncodedLength(w_read)

\* Two entries were read whole by read_vec from a source of whole reads.
ReaderStatsWholeReadsWitness ==
    /\ w_pc = "read" /\ w_mode = "read_vec"
    /\ w_reader[1].src.read_size >= 4 + MaxItemLen
    /\ Len(w_read) = 2
    /\ w_read[1] # <<>>

\* The tokens the controller has taken from the channel and not handed to a
\* worker: the one it reads a chunk under, and, after the loop, the one it
\* took before the read that found the input empty.
TokensHeldByController == IF ctl \in {"read", "join_all"} THEN 1 ELSE 0

\* C38: token conservation on the admission channel.  In every state of the
\* map phase (from the filling of the channel to join_all) in which no worker
\* has failed, the tokens in the channel, the map workers spawned and not
\* finished, and the tokens held by the controller add up to mappers; so the
\* channel never holds more than mappers tokens and there is room for the
\* token of every worker that has yet to return one.
C38_TokenConservation ==
    (ctl \in {"recv", "read", "join_all"} /\ ~MapPanicked) =>
        /\ chan + Cardinality(RunningMappers) + TokensHeldByController = params.mappers
        /\ chan <= params.mappers
        /\ chan + Cardinality(RunningMappers) <= params.mappers

\* With two mappers: one token is with the controller, which is reading, the
\* other with a worker; the channel is empty.
C38_Witness ==
    /\ params.mappers = 2
    /\ ctl = "read"
    /\ chan = 0
    /\ Cardinality(RunningMappers) = 1
    /\ ~MapPanicked

\* The InputCaches in existence: those of the workers spawned that have not
\* ended (queued in the pool or running), and the one the controller is
\* filling.
InputCachesInExistence ==
    Cardinality({i \in Chunks : mw[i + 1].pc \notin {"done", "panicked"}})
    + (IF ctl = "read" THEN 1 ELSE 0)

\* C39: the controller reads a chunk only while it holds an admission token
\* (the token is neither in the channel nor with a worker), so the number of
\* InputCaches in existence is at most mappers at every moment.
C39_CachesBounded ==
    /\ [][input' # input =>
             /\ ctl = "read"
             /\ chan + Cardinality(RunningMappers) < params.mappers]_vars
    /\ [](InputCachesInExistence <= params.mappers)

\* With one mapper: the one cache allowed is with a worker, and the
\* controller waits for the token with input left to read.
C39_Witness ==
    /\ params.mappers = 1
    /\ ctl = "recv"
    /\ chan = 0
    /\ input # <<>>
    /\ InputCachesInExistence = 1

\* With two mappers: two caches exist, one with a worker and one being
\* filled by the controller.
TwoCachesWitness ==
    /\ params.mappers = 2
    /\ ctl = "read"
    /\ input # <<>>
    /\ InputCachesInExistence = 2

====
